---- MODULE Spec2Model ----
(***************************************************************************)
(* SynthesisTalk: the chat endpoint, the tool dispatcher and the ReAct     *)
(* loop of src/backend/main.py and src/llm/llm_integration.py.             *)
(*                                                                         *)
(* Handlers are coroutines on one event loop: a handler runs without       *)
(* interruption until it awaits something that really suspends (the HTTP  *)
(* requests of web_search).  The language-model client is synchronous, so  *)
(* a model call never yields.  `running` is the handler that holds the     *)
(* loop; it is released only at the web_search await and at return.        *)
(*                                                                         *)
(* Text is modelled as a sequence of tokens (words, one whitespace token,  *)
(* a few fixed phrases); a dictionary is a function from key strings.      *)
(***************************************************************************)
EXTENDS Integers, Sequences, FiniteSets, TLC

\* ------------------------------------------------------------------ bounds
MaxTurns == 2       \* requests accepted over one behaviour
MaxKeys == 2        \* keys in a Parameters object the language model writes
MaxResults == 2     \* results a web search returns
MaxWords == 5       \* words of a text handed to chunk_text
MaxChunk == 4       \* largest chunk_size and overlap handed to chunk_text

\* ------------------------------------------------------------ input sets
Procs == {1, 2}
ConvIds == {"c1", "c2"}
CollIds == {"k1", "k2"}
None == "None"
WS == " "

\* ------------------------------------------------------------------ text
LowerTok(t) ==
    CASE t = "/Reset" -> "/reset"
      [] t = "/RESET" -> "/reset"
      [] t = "Search for information about:" -> "search for information about:"
      [] t = "SEARCH FOR INFORMATION ABOUT:" -> "search for information about:"
      [] t = "Water" -> "water"
      [] t = "Finish" -> "finish"
      [] t = "FINISH" -> "finish"
      [] t = "Take_Note" -> "take_note"
      [] OTHER -> t

\* str.lower()
Lower(s) == [j \in 1..Len(s) |-> LowerTok(s[j])]

RECURSIVE LStrip(_)
LStrip(s) == IF s # <<>> /\ Head(s) = WS THEN LStrip(Tail(s)) ELSE s

RECURSIVE RStrip(_)
RStrip(s) ==
    IF s # <<>> /\ s[Len(s)] = WS THEN RStrip(SubSeq(s, 1, Len(s) - 1)) ELSE s

\* str.strip()
Strip(s) == RStrip(LStrip(s))

\* needle in hay (str.__contains__), on token sequences
Contains(hay, needle) ==
    \E j \in 0..(Len(hay) - Len(needle)) :
        SubSeq(hay, j + 1, j + Len(needle)) = needle

\* Python's seq[-n:] for any integer n
LastSlice(s, n) ==
    LET len == Len(s)
        start == IF n > 0 THEN (IF len - n > 0 THEN len - n ELSE 0)
                 ELSE (IF -n < len THEN -n ELSE len)
    IN SubSeq(s, start + 1, len)

\* Python's seq[:n] for n >= 0
FirstSlice(s, n) == SubSeq(s, 1, IF n < Len(s) THEN n ELSE Len(s))

\* dict comprehension {k: v for k, v in d.items() if k in keys}
Restrict(d, keys) == [k \in (DOMAIN d) \cap keys |-> d[k]]

\* d[k] = v
Put(d, k, v) == [x \in (DOMAIN d) \cup {k} |-> IF x = k THEN v ELSE d[x]]

EmptyDict == <<>>

SearchPrefix == "search for information about:"

\* main.is_direct_search: the <query> of "Search for information about: <query>";
\* the empty text stands for None (both are falsy where the result is tested)
is_direct_search(message) ==
    LET m == LStrip(message)
    IN IF m # <<>> /\ LowerTok(Head(m)) = SearchPrefix /\ LStrip(Tail(m)) # <<>>
       THEN Strip(LStrip(Tail(m)))
       ELSE <<>>

\* ----------------------------------------------------------------- tools
\* list(self.tools.keys()): the registry in insertion order
ToolOrder ==
    << "web_search", "document_summarize", "document_extract", "take_note",
       "get_notes", "explain_concept", "clarify_information", "generate_insights" >>

ToolNames == {ToolOrder[j] : j \in 1..Len(ToolOrder)}

\* parameters without a default in each tool's signature
Required(tool) ==
    CASE tool = "web_search" -> {"query"}
      [] tool = "document_summarize" -> {"collection_id"}
      [] tool = "document_extract" -> {"collection_id", "query"}
      [] tool = "take_note" -> {"conversation_id", "note"}
      [] tool = "get_notes" -> {"conversation_id"}
      [] tool = "explain_concept" -> {"concept"}
      [] tool = "clarify_information" -> {"information"}
      [] tool = "generate_insights" -> {"conversation_id"}
      [] OTHER -> {}

\* every parameter of each tool's signature
Signature(tool) ==
    CASE tool = "web_search" -> {"query", "num_results"}
      [] tool = "document_summarize" -> {"collection_id", "max_length"}
      [] tool = "document_extract" -> {"collection_id", "query", "max_length"}
      [] tool = "take_note" -> {"conversation_id", "note", "category"}
      [] tool = "get_notes" -> {"conversation_id", "category"}
      [] tool = "explain_concept" -> {"concept", "level"}
      [] tool = "clarify_information" -> {"information", "context"}
      [] tool = "generate_insights" -> {"conversation_id"}
      [] OTHER -> {}

\* self.tools[tool_name](**parameters) binds: no TypeError for a missing or an
\* unexpected keyword
Binds(tool, parameters) ==
    /\ Required(tool) \subseteq DOMAIN parameters
    /\ DOMAIN parameters \subseteq Signature(tool)

\* a parameter value: a JSON scalar the model or a caller wrote (str), or text
\* built around the ReAct query (query), as in f"Note regarding: {query}"
EmptyContext == [header |-> FALSE, chunks |-> <<>>, history |-> <<>>]

\* the query react_reasoning is given: combined_context + "User: " + message_text
EmptyQuery == [context |-> EmptyContext, message |-> <<>>]

Val(str) == [str |-> str, query |-> EmptyQuery]

QueryVal(prefix, query) == [str |-> prefix, query |-> query]

\* a JSON value that is no valid dictionary key (a list, an object)
Unhashable == "[]"

\* the values a tool tests with `in` on a store before its try block
KeyedBeforeTry(tool) ==
    CASE tool = "document_summarize" -> {"collection_id"}
      [] tool = "document_extract" -> {"collection_id"}
      [] tool = "generate_insights" -> {"conversation_id"}
      [] OTHER -> {}

\* the call raises TypeError out of the tool: bad binding, or an unhashable key
\* looked up outside the tool's own try
RaisesTypeError(tool, parameters) ==
    \/ ~Binds(tool, parameters)
    \/ \E k \in KeyedBeforeTry(tool) : parameters[k].str = Unhashable

\* execute_tool, tool_name not in self.tools
NotFoundResult(tool_name) ==
    [error |-> [kind |-> "not_found", tool |-> tool_name, available |-> ToolOrder]]

\* execute_tool, except TypeError
InvalidParametersResult(tool_name) ==
    [error |-> [kind |-> "invalid_parameters", tool |-> tool_name, available |-> <<>>]]

\* execute_tool, except Exception
ExecutionErrorResult(tool_name) ==
    [error |-> [kind |-> "execution_error", tool |-> tool_name, available |-> <<>>]]

\* a tool's own except branch: {"error": str(e), "success": False}
ToolErrorResult(tool_name) ==
    [error |-> [kind |-> "exception", tool |-> tool_name, available |-> <<>>],
     success |-> FALSE]

\* tool_result.get("success")
Succeeded(result) == "success" \in DOMAIN result /\ result.success

\* ----------------------------------------------------------------- state
VARIABLES
    conversations,          \* conversation_id -> sequence of ChatMessage
    user_notes,             \* conversation_id -> sequence of note entries
    research_insights,      \* conversation_id -> sequence of ResearchInsight
    document_collections,   \* collection_id -> metadata and chunks
    chroma,                 \* the vector index: collection name -> documents
    uuids,                  \* uuid4 values issued so far
    running,                \* the handlers that hold the event loop: none or one
    turns,                  \* requests accepted so far
    h,                      \* per handler: its program counter and locals
    helper                  \* a call of a helper outside any handler

vars == << conversations, user_notes, research_insights, document_collections,
           chroma, uuids, running, turns, h, helper >>

stores == << conversations, user_notes, research_insights, document_collections,
             chroma, uuids >>

\* what the language model may answer to a completion call
FirstText == "a1"

LlmTexts == {FirstText, "a2"}

\* documents.values() of a collection hold one document: its chunks
ChunksOf(coll_id) == document_collections[coll_id].chunks

RECURSIVE JoinWords(_)
\* " ".join(words)
JoinWords(words) ==
    IF Len(words) <= 1 THEN words
    ELSE <<Head(words), WS>> \o JoinWords(Tail(words))

RECURSIVE ScanChunksCaseSensitive(_, _, _)
\* a fallback loop that compares the chunk as stored
ScanChunksCaseSensitive(chunks, query_low, raw_chunks) ==
    IF chunks = <<>> THEN raw_chunks
    ELSE LET found == IF Contains(JoinWords(Head(chunks)), query_low)
                      THEN Append(raw_chunks, Head(chunks))
                      ELSE raw_chunks
         IN IF Len(found) >= 3 THEN found
            ELSE ScanChunksCaseSensitive(Tail(chunks), query_low, found)

RECURSIVE ScanChunks(_, _, _)
\* the fallback loop: append each chunk whose lowercased text contains the
\* lowercased query, stop once 3 were collected
ScanChunks(chunks, query_low, raw_chunks) ==
    IF chunks = <<>> THEN raw_chunks
    ELSE LET found == IF Contains(Lower(JoinWords(Head(chunks))), query_low)
                      THEN Append(raw_chunks, Head(chunks))
                      ELSE raw_chunks
         IN IF Len(found) >= 3 THEN found
            ELSE ScanChunks(Tail(chunks), query_low, found)

SubstringSearch(coll_id, query) == ScanChunks(ChunksOf(coll_id), Lower(query), <<>>)

Reverse(s) == [j \in 1..Len(s) |-> s[Len(s) + 1 - j]]

\* what the vector index may do with one query: fail, or rank its documents
VecOutcomes == {"fail", "fwd", "rev"}

\* collection.query(n_results=3): the 3 nearest documents, in an order the
\* embedding decides
VectorQuery(coll_id, vec) ==
    FirstSlice(IF vec = "rev" THEN Reverse(chroma[coll_id]) ELSE chroma[coll_id], 3)

\* vector search with the substring fallback on any failure
RetrieveChunks(coll_id, query, vec) ==
    IF coll_id \in DOMAIN chroma /\ vec # "fail"
    THEN VectorQuery(coll_id, vec)
    ELSE SubstringSearch(coll_id, query)

\* re.split(r'(?<=[.!?])\s+', chunk): a word ending in . ! or ? closes a sentence
EndsSentence(word) == word \in {"blue.", "wet.", "done!", "why?"}

RECURSIVE SplitSentences(_, _)
SplitSentences(words, current) ==
    IF words = <<>> THEN (IF current = <<>> THEN <<>> ELSE <<current>>)
    ELSE IF EndsSentence(Head(words)) /\ Tail(words) # <<>>
         THEN <<Append(current, Head(words))>> \o SplitSentences(Tail(words), <<>>)
         ELSE SplitSentences(Tail(words), Append(current, Head(words)))

\* words[:max_length] joined and followed by the ellipsis when longer
Truncate(words, max_length) ==
    IF Len(words) > max_length
    THEN Append(FirstSlice(words, max_length), "...")
    ELSE words

RECURSIVE FirstMatch(_, _)
\* the first sentence of the chunk that contains the query, as a one-element
\* sequence, or the empty sequence
FirstMatch(sentences, query_low) ==
    IF sentences = <<>> THEN <<>>
    ELSE IF Contains(Lower(JoinWords(Head(sentences))), query_low)
         THEN <<Head(sentences)>>
         ELSE FirstMatch(Tail(sentences), query_low)

RECURSIVE MatchSentences(_, _, _, _)
MatchSentences(raw_chunks, query_low, max_length, relevant) ==
    IF raw_chunks = <<>> THEN relevant
    ELSE LET m == FirstMatch(SplitSentences(Head(raw_chunks), <<>>), query_low)
             got == IF m = <<>> THEN relevant
                    ELSE Append(relevant, Truncate(m[1], max_length))
         IN IF Len(got) >= 3 THEN got
            ELSE MatchSentences(Tail(raw_chunks), query_low, max_length, got)

\* an extraction that skips the sentence level: the truncated chunks, always
WholeChunks(raw_chunks, query, max_length) ==
    LET head == FirstSlice(raw_chunks, 3)
    IN [j \in 1..Len(head) |-> Truncate(head[j], max_length)]

\* document_extract after retrieval: sentence level, else truncated chunks
RelevantSentences(raw_chunks, query, max_length) ==
    LET relevant == MatchSentences(raw_chunks, Lower(query), max_length, <<>>)
        head == FirstSlice(raw_chunks, 3)
    IN IF relevant # <<>> THEN relevant
       ELSE [j \in 1..Len(head) |-> Truncate(head[j], max_length)]

\* ------------------------------------------------------- the eight tools
\* JSON numbers are written as digit strings; every other value is no number
NumberOf(v) ==
    CASE v.str = "0" -> 0 [] v.str = "2" -> 2 [] v.str = "5" -> 5
      [] v.str = "200" -> 200 [] v.str = "500" -> 500 [] OTHER -> -1

IsNumber(v) == NumberOf(v) >= 0

\* parameters.get(key, default) as the callee sees a defaulted keyword
Arg(parameters, key, default) ==
    IF key \in DOMAIN parameters THEN parameters[key] ELSE default

\* a parameter value used as text: its words, one token where it has one word
AsText(v) == IF v.str = "blue. Water" THEN <<"blue.", WS, "Water">> ELSE <<v.str>>

\* WebSearchTool.search result number i, then scraped and summarized
SearchEntry(j, sum_ok) ==
    [title |-> <<"title", j>>, url |-> <<"url", j>>, snippet |-> <<"snippet", j>>,
     summary |-> IF sum_ok THEN <<"summary", j>> ELSE <<"snippet", j>>]

\* ToolManager.web_search once its requests have returned n raw results
WebSearchResult(parameters, n, sum_ok) ==
    LET count == IF IsNumber(Arg(parameters, "num_results", Val("5"))) THEN n ELSE 0
    IN [tool |-> "web_search",
        results |-> [j \in 1..count |-> SearchEntry(j, sum_ok)],
        count |-> count,
        success |-> TRUE]

\* the note take_note stores
NoteEntry(parameters) ==
    [id |-> uuids.note + 1,
     content |-> parameters.note,
     category |-> Arg(parameters, "category", Val("general"))]

\* a store that keeps only the new note
NotesAfterTakeNoteAlone(parameters) ==
    Put(user_notes, parameters.conversation_id.str, <<NoteEntry(parameters)>>)

\* a store that puts the new note in front
NotesAfterTakeNoteInFront(parameters) ==
    LET cid == parameters.conversation_id.str
        old == IF cid \in DOMAIN user_notes THEN user_notes[cid] ELSE <<>>
    IN Put(user_notes, cid, <<NoteEntry(parameters)>> \o old)

\* user_notes after take_note
NotesAfterTakeNote(parameters) ==
    LET cid == parameters.conversation_id.str
        old == IF cid \in DOMAIN user_notes THEN user_notes[cid] ELSE <<>>
    IN Put(user_notes, cid, Append(old, NoteEntry(parameters)))

take_note(parameters) ==
    IF parameters.conversation_id.str = Unhashable
    THEN [result |-> ToolErrorResult("take_note"), notes |-> user_notes]
    ELSE [result |-> [tool |-> "take_note", note_id |-> uuids.note + 1, success |-> TRUE],
          notes |-> NotesAfterTakeNote(parameters)]

\* `if category:` -- None and the empty string are falsy
Truthy(v) == v.str # ""

\* [n for n in notes if n['category'] == category]
SelectCategory(notes, category) ==
    SelectSeq(notes, LAMBDA n : n.category = category)

\* a get_notes that treats a conversation without notes as an error
get_notes_or_error(parameters) ==
    IF parameters.conversation_id.str \notin DOMAIN user_notes
    THEN ToolErrorResult("get_notes")
    ELSE [tool |-> "get_notes", notes |-> user_notes[parameters.conversation_id.str],
          count |-> Len(user_notes[parameters.conversation_id.str]), success |-> TRUE]

get_notes(parameters) ==
    LET cid == parameters.conversation_id.str
    IN IF cid = Unhashable THEN ToolErrorResult("get_notes")
       ELSE IF cid \notin DOMAIN user_notes
       THEN [tool |-> "get_notes", notes |-> <<>>, success |-> TRUE]
       ELSE LET notes == IF Truthy(Arg(parameters, "category", Val("")))
                         THEN SelectCategory(user_notes[cid], parameters.category)
                         ELSE user_notes[cid]
            IN [tool |-> "get_notes", notes |-> notes, count |-> Len(notes),
                success |-> TRUE]

NotFoundError(what) ==
    [error |-> [kind |-> what, tool |-> "", available |-> <<>>], success |-> FALSE]

explain_concept(parameters, llm_ok, text) ==
    IF llm_ok
    THEN [tool |-> "explain_concept", concept |-> parameters.concept,
          explanation |-> text, success |-> TRUE]
    ELSE ToolErrorResult("explain_concept")

clarify_information(parameters, llm_ok, text) ==
    IF llm_ok
    THEN [tool |-> "clarify_information", clarification |-> text, success |-> TRUE]
    ELSE ToolErrorResult("clarify_information")

\* the ResearchInsight generate_insights builds; confidence 0.8 in tenths
Confidence == 8

\* a conversation text made of every message
InsightPromptWhole(cid) ==
    [j \in 1..Len(conversations[cid]) |-> conversations[cid][j].content]

\* conversation_text: the contents of conversations[conversation_id][-10:]
InsightPrompt(cid) ==
    LET recent_msgs == LastSlice(conversations[cid], 10)
    IN [j \in 1..Len(recent_msgs) |-> recent_msgs[j].content]

\* the insight; its content is what the language model answered (text) to the
\* conversation text it was sent (prompt)
Insight(cid, text) ==
    [title |-> "Conversation Insights",
     content |-> [text |-> text, prompt |-> InsightPrompt(cid)],
     sources |-> <<"conversation">>, confidence |-> Confidence]

InsightsAfter(cid, text) ==
    LET old == IF cid \in DOMAIN research_insights THEN research_insights[cid] ELSE <<>>
    IN Put(research_insights, cid, Append(old, Insight(cid, text)))

generate_insights(parameters, llm_ok, text) ==
    LET cid == parameters.conversation_id.str
    IN IF cid \notin DOMAIN conversations
       THEN [result |-> NotFoundError("Conversation not found"),
             insights |-> research_insights, llm |-> 0]
       ELSE IF llm_ok
       THEN [result |-> [tool |-> "generate_insights", insights |-> <<Insight(cid, text)>>,
                         success |-> TRUE],
             insights |-> InsightsAfter(cid, text), llm |-> 1]
       ELSE [result |-> ToolErrorResult("generate_insights"),
             insights |-> research_insights, llm |-> 1]

document_summarize(parameters, llm_ok, text) ==
    IF parameters.collection_id.str \notin DOMAIN document_collections
    THEN [result |-> NotFoundError("Collection not found"), llm |-> 0]
    ELSE IF llm_ok
    THEN [result |-> [tool |-> "document_summarize", summary |-> text,
                      source_count |-> 1, success |-> TRUE],
          llm |-> 1]
    ELSE [result |-> ToolErrorResult("document_summarize"), llm |-> 1]

\* a document_extract that answers an unknown collection with no passages
document_extract_lenient(parameters, vec) ==
    IF parameters.collection_id.str \notin DOMAIN document_collections
    THEN [tool |-> "document_extract", query |-> parameters.query,
          relevant_chunks |-> <<>>, chunk_count |-> 0, success |-> TRUE]
    ELSE ToolErrorResult("document_extract")

document_extract(parameters, vec) ==
    LET coll_id == parameters.collection_id.str
        max_length == Arg(parameters, "max_length", Val("200"))
    IN IF coll_id \notin DOMAIN document_collections
       THEN NotFoundError("Collection not found")
       ELSE LET raw_chunks == RetrieveChunks(coll_id, AsText(parameters.query), vec)
            IN IF raw_chunks # <<>> /\ ~IsNumber(max_length)
               THEN ToolErrorResult("document_extract")
               ELSE LET relevant == RelevantSentences(raw_chunks,
                                        AsText(parameters.query), NumberOf(max_length))
                    IN [tool |-> "document_extract", query |-> parameters.query,
                        relevant_chunks |-> relevant, chunk_count |-> Len(relevant),
                        success |-> TRUE]

\* what the environment decides during one tool call
ToolEnvs == [llm_ok : BOOLEAN, vec : VecOutcomes]

\* the text a language-model call made inside a tool returns
ToolText == "tool text"

\* the environment choices a tool does not read are fixed, so that one call has
\* one outcome per choice it can observe
EnvsFor(tool) ==
    {e \in ToolEnvs :
        /\ (tool \notin {"document_extract"} => e.vec = "fail")
        /\ (tool \in {"take_note", "get_notes", "document_extract"} => e.llm_ok)
        /\ (tool \notin ToolNames => e.llm_ok)}

\* an exception that leaves the callee, in place of a result
Raised(exception) == [raised |-> exception]

\* self.tools[tool_name](**parameters) for a registered tool that does not
\* suspend: the result (or the exception raised), the stores after it and the
\* language-model calls it made
RunTool(tool, parameters, e) ==
    LET base == [result |-> Raised("TypeError"), notes |-> user_notes,
                 insights |-> research_insights, llm |-> 0]
    IN IF RaisesTypeError(tool, parameters) THEN base
       ELSE CASE tool = "take_note" ->
                 [base EXCEPT !.result = take_note(parameters).result,
                              !.notes = take_note(parameters).notes]
              [] tool = "get_notes" -> [base EXCEPT !.result = get_notes(parameters)]
              [] tool = "explain_concept" ->
                 [base EXCEPT !.result = explain_concept(parameters, e.llm_ok, ToolText),
                              !.llm = 1]
              [] tool = "clarify_information" ->
                 [base EXCEPT !.result =
                                clarify_information(parameters, e.llm_ok, ToolText),
                              !.llm = 1]
              [] tool = "generate_insights" ->
                 LET r == generate_insights(parameters, e.llm_ok, ToolText)
                 IN [base EXCEPT !.result = r.result, !.insights = r.insights,
                                 !.llm = r.llm]
              [] tool = "document_summarize" ->
                 LET r == document_summarize(parameters, e.llm_ok, ToolText)
                 IN [base EXCEPT !.result = r.result, !.llm = r.llm]
              [] tool = "document_extract" ->
                 [base EXCEPT !.result = document_extract(parameters, e.vec)]

\* execute_tool with the two except branches left out
execute_tool_uncaught(tool_name, parameters, e) ==
    IF tool_name \notin ToolNames
    THEN [result |-> NotFoundResult(tool_name), notes |-> user_notes,
          insights |-> research_insights, llm |-> 0]
    ELSE RunTool(tool_name, parameters, e)

\* ToolManager.execute_tool for every call but a web_search that binds:
\* [result, notes, insights, llm]
execute_tool(tool_name, parameters, e) ==
    IF tool_name \notin ToolNames
    THEN [result |-> NotFoundResult(tool_name), notes |-> user_notes,
          insights |-> research_insights, llm |-> 0]
    ELSE LET out == RunTool(tool_name, parameters, e)
         IN IF "raised" \notin DOMAIN out.result THEN out
            ELSE IF out.result.raised = "TypeError"
            THEN [out EXCEPT !.result = InvalidParametersResult(tool_name)]
            ELSE [out EXCEPT !.result = ExecutionErrorResult(tool_name)]

\* the call reaches web_search's awaits and suspends the handler
Suspends(tool_name, parameters) ==
    tool_name = "web_search" /\ Binds(tool_name, parameters)

\* ------------------------------------------------------ messages and text
\* a piece of response text: which template it is and what was put into it
NoContent == [kind |-> "none", text |-> <<>>, items |-> <<>>, query |-> EmptyQuery]

UserContent(message_text) == [NoContent EXCEPT !.kind = "message", !.text = message_text]

\* a completion handed on with a label in front of the model's text
LlmContentLabelled(text) == [NoContent EXCEPT !.kind = "llm", !.text = <<"Answer:", text>>]

\* response.choices[0].message.content
LlmContent(text) == [NoContent EXCEPT !.kind = "llm", !.text = <<text>>]

\* a fallback text that leaves the query out
FallbackAnswerNoQuery(query) == [NoContent EXCEPT !.kind = "react_fallback"]

\* "I encountered an error during reasoning. Here's a direct response: {query}"
FallbackAnswer(query) == [NoContent EXCEPT !.kind = "react_fallback", !.query = query]

\* "Error during chain-of-thought reasoning: ..."
CotError == [NoContent EXCEPT !.kind = "chain_of_thought_error"]

\* the apology of the direct path
Apology == [NoContent EXCEPT !.kind = "apology"]

\* the acknowledgment of /reset
ResetAck == [NoContent EXCEPT !.kind = "context_cleared"]

NoResultsContent(direct_query) ==
    [NoContent EXCEPT !.kind = "no_search_results", !.text = direct_query]

SearchFailedContent == [NoContent EXCEPT !.kind = "web_search_failed"]

\* the numbered lines of the direct search: idx, title, url, snippet
SearchLines(results) ==
    [j \in 1..Len(results) |->
        [idx |-> j, title |-> results[j].title, url |-> results[j].url,
         snippet |-> results[j].snippet]]

SearchContent(results) ==
    [NoContent EXCEPT !.kind = "web_search_results", !.items = SearchLines(results)]

\* the sources cut to the first result
SourcesOfFirst(results) == [j \in 1..1 |-> results[j].url]

\* [e["url"] for e in results]
SourcesOf(results) == [j \in 1..Len(results) |-> results[j].url]

ChatMessage(role, content, sources, reasoning_type) ==
    [role |-> role, content |-> content, sources |-> sources,
     reasoning_type |-> reasoning_type]

\* the JSON body the chat endpoint returns
ChatResponse(content, conversation_id, reasoning_type) ==
    [response |-> content, conversation_id |-> conversation_id,
     reasoning_type |-> reasoning_type]

\* a test for /reset that respects letter case
IsResetExact(message_text) == message_text = <<"/reset">>

\* message_text.lower() == "/reset"
IsReset(message_text) == Lower(message_text) = <<"/reset">>

\* conversations[conversation_id] = []
ResetConversation(conversation_id) == Put(conversations, conversation_id, <<>>)

\* an append that puts the message in front
AppendMessageInFront(conversation_id, msg) ==
    LET old == IF conversation_id \in DOMAIN conversations
               THEN conversations[conversation_id] ELSE <<>>
    IN Put(conversations, conversation_id, <<msg>> \o old)

\* if conversation_id not in conversations: conversations[conversation_id] = []
\* followed by conversations[conversation_id].append(msg)
AppendMessage(conversation_id, msg) ==
    LET old == IF conversation_id \in DOMAIN conversations
               THEN conversations[conversation_id] ELSE <<>>
    IN Put(conversations, conversation_id, Append(old, msg))

AllButLast(s) == SubSeq(s, 1, Len(s) - 1)

\* context_lines: the window conversations[cid][-context_limit:] without its
\* last element, each message as "role: content"
ContextLines(messages, context_limit) ==
    LET recent_msgs == AllButLast(LastSlice(messages, context_limit))
    IN [j \in 1..Len(recent_msgs) |->
           [role |-> recent_msgs[j].role, content |-> recent_msgs[j].content]]

RECURSIVE RelevantChunksBackwards(_, _, _, _)
\* a bundle that puts each collection's chunks in front of the earlier ones
RelevantChunksBackwards(coll_ids, j, message_text, vecs) ==
    IF j > Len(coll_ids) THEN <<>>
    ELSE RelevantChunksBackwards(coll_ids, j + 1, message_text, vecs)
         \o (IF coll_ids[j] \in DOMAIN document_collections
             THEN FirstSlice(RetrieveChunks(coll_ids[j], message_text, vecs[j]), 3)
             ELSE <<>>)

RECURSIVE RelevantChunks(_, _, _, _)
\* all_relevant_chunks: per supplied collection that is in the store, its first
\* 3 retrieved chunks; vecs[j] is what the vector index does for the j-th one
RelevantChunks(coll_ids, j, message_text, vecs) ==
    IF j > Len(coll_ids) THEN <<>>
    ELSE (IF coll_ids[j] \in DOMAIN document_collections
          THEN FirstSlice(RetrieveChunks(coll_ids[j], message_text, vecs[j]), 3)
          ELSE <<>>)
         \o RelevantChunks(coll_ids, j + 1, message_text, vecs)

\* the vector-index outcomes that can make a difference for the request
VecChoices(coll_ids) ==
    {vecs \in [1..Len(coll_ids) -> VecOutcomes] :
        \A j \in 1..Len(coll_ids) :
            coll_ids[j] \notin (DOMAIN chroma \cap DOMAIN document_collections)
                => vecs[j] = "fail"}

\* combined_context
CombinedContext(request, messages, message_text, vecs) ==
    LET chunks == RelevantChunks(request.document_collections, 1, message_text, vecs)
    IN [header |-> chunks # <<>>, chunks |-> chunks,
        history |-> ContextLines(messages, request.context_limit)]

\* a choice of strategy that asks only for the tool flag
StrategyToolsOnly(request) ==
    IF request.use_chain_of_thought THEN "chain_of_thought"
    ELSE IF request.use_tools THEN "react"
    ELSE "direct"

\* the branch of "Determine reasoning path"
Strategy(request) ==
    IF request.use_chain_of_thought THEN "chain_of_thought"
    ELSE IF request.use_tools /\ request.document_collections # <<>> THEN "react"
    ELSE "direct"

\* ------------------------------------------------------------ ReAct loop
max_iterations == 3

\* What one thinking call returns, as the three regular expressions of the loop
\* see it: `action` is the word after "Action:" (None when there is none),
\* `block` says whether a "Parameters: {...}" block is absent, is no JSON, or
\* parses, and `parameters` is the parsed object.
NoStep == [action |-> None, block |-> "none", parameters |-> EmptyDict]

\* a test for finish that respects letter case
IsFinishExact(reasoning_step) == reasoning_step.action = "finish"

\* re.search(r"Action:\s*finish", reasoning_step, re.IGNORECASE)
IsFinish(reasoning_step) == LowerTok(reasoning_step.action) = "finish"

\* action_match is None
NoAction(reasoning_step) == reasoning_step.action = None

\* action_match.group(1).lower()
ActionOf(reasoning_step) == LowerTok(reasoning_step.action)

\* params after the Parameters block was looked for and json.loads tried
ParsedParams(reasoning_step) ==
    IF reasoning_step.block = "json" THEN reasoning_step.parameters ELSE EmptyDict

\* the keys each branch of "Defaults and filtering for each tool" keeps
ReactAllowed(action) ==
    CASE action = "web_search" -> {"query", "num_results"}
      [] action = "document_summarize" -> {"collection_id", "max_length"}
      [] action = "document_extract" -> {"collection_id", "query", "max_length"}
      [] action = "take_note" -> {"conversation_id", "note", "category"}
      [] action = "generate_insights" -> {"conversation_id"}
      [] action = "explain_concept" -> {"concept", "level"}
      [] action = "clarify_information" -> {"information", "context"}

\* the actions that have a branch in "Defaults and filtering for each tool"
ReactHandled ==
    {"web_search", "document_summarize", "document_extract", "take_note",
     "generate_insights", "explain_concept", "clarify_information"}

\* the parameters a branch cannot default: their absence skips the action
ReactMandatory(action) ==
    CASE action = "document_summarize" -> {"collection_id"}
      [] action = "document_extract" -> {"collection_id", "query"}
      [] OTHER -> {}

\* a skip rule that only looks for collection_id
SkipsActionCollectionOnly(action, params) ==
    action \in ReactHandled /\ "collection_id" \in ReactMandatory(action)
                            /\ "collection_id" \notin DOMAIN params

\* the action is skipped with `continue`
SkipsAction(action, params) ==
    action \in ReactHandled /\ ~(ReactMandatory(action) \subseteq DOMAIN params)

\* a default that overwrites what the model supplied
SetDefaultAlways(params, key, value) == Put(params, key, value)

\* if key not in params: params[key] = value
SetDefault(params, key, value) ==
    IF key \in DOMAIN params THEN params ELSE Put(params, key, value)

\* the defaults a branch injects
WithDefaults(action, params, query, conversation_id) ==
    CASE action = "web_search" -> SetDefault(params, "query", QueryVal("", query))
      [] action = "take_note" ->
            SetDefault(SetDefault(params, "conversation_id", Val(conversation_id)),
                       "note", QueryVal("Note regarding:", query))
      [] action = "generate_insights" ->
            SetDefault(params, "conversation_id", Val(conversation_id))
      [] action = "explain_concept" -> SetDefault(params, "concept", QueryVal("", query))
      [] action = "clarify_information" ->
            SetDefault(params, "information", QueryVal("", query))
      [] OTHER -> params

\* params filtered but with no default injected
PreparedParamsUndefaulted(action, params, query, conversation_id) ==
    IF action \in ReactHandled THEN Restrict(params, ReactAllowed(action)) ELSE params

\* params as handed to execute_tool
PreparedParams(action, params, query, conversation_id) ==
    IF action \in ReactHandled
    THEN Restrict(WithDefaults(action, params, query, conversation_id),
                  ReactAllowed(action))
    ELSE params

\* a final prompt with the window of the thinking prompt, reasoning_log[-2:]
FinalPromptLastTwo(query, reasoning_log) ==
    [query |-> query, reasoning_log |-> LastSlice(reasoning_log, 2)]

\* the final prompt: the original query and json.dumps(reasoning_log)
FinalPrompt(query, reasoning_log) == [query |-> query, reasoning_log |-> reasoning_log]

NoPrompt == FinalPrompt(EmptyQuery, <<>>)

\* reasoning_log entries: what was appended, and in which iteration
IterationEntry(i) == [kind |-> "Iteration", i |-> i + 1]

NoActionEntry(i) == [kind |-> "No action identified; breaking.", i |-> i + 1]

ToolEntry(i, tool_result) ==
    [kind |-> IF Succeeded(tool_result) THEN "Tool result" ELSE "Tool result: error",
     i |-> i + 1]

\* ----------------------------------------------------------- handlers
NoRequest ==
    [message |-> <<>>, conversation_id |-> "", use_chain_of_thought |-> FALSE,
     use_tools |-> FALSE, context_limit |-> 0, document_collections |-> <<>>]

NoResult == [tool |-> "none"]

NoResponse == ChatResponse(NoContent, "", "none")

\* a handler that is not running: every local at its initial value
Idle ==
    [pc |-> "idle", endpoint |-> "none", request |-> NoRequest,
     query |-> EmptyQuery, i |-> 0, reasoning_log |-> <<>>,
     reasoning_step |-> NoStep, action |-> None, params |-> EmptyDict,
     tool_name |-> None, ret |-> None, tool_result |-> NoResult, final_prompt |-> NoPrompt,
     answer |-> NoContent, response |-> NoResponse,
     thinking_calls |-> 0, synthesis_calls |-> 0, llm_calls |-> 0, tool_llm |-> 0,
     dispatches |-> 0, in_flight |-> 0, fault |-> "", final_response |-> None,
     pre_len |-> 0, fallbacks |-> <<>>]

\* no helper is being called
NoCall == [fn |-> "none", args |-> <<>>, outcome |-> "none", result |-> <<>>]

\* handler p goes on with locals r; a handler that had returned is forgotten
SetH(p, r) ==
    [q \in Procs |-> IF q = p THEN r ELSE IF h[q].pc = "done" THEN Idle ELSE h[q]]

Init ==
    /\ conversations = <<>>
    /\ user_notes = <<>>
    /\ research_insights = <<>>
    /\ document_collections = <<>>
    /\ chroma = <<>>
    /\ uuids = [note |-> 0, collection |-> 0]
    /\ running = {}
    /\ turns = 0
    /\ h = [p \in Procs |-> Idle]
    /\ helper = NoCall

\* ------------------------------------------------------------ documents
\* upload_document chunks with chunk_size=1000, overlap=200
UploadChunkSize == 1000
UploadOverlap == 200

\* text.split()
Words(text) == SelectSeq(text, LAMBDA t : t # WS)

\* words[start:stop] for 0 <= start: a negative stop counts from the end
Slice(words, start, stop) ==
    LET from_end == IF stop + Len(words) < 0 THEN 0 ELSE stop + Len(words)
        last == IF stop < 0 THEN from_end
                ELSE IF stop < Len(words) THEN stop ELSE Len(words)
    IN SubSeq(words, start + 1, last)

RECURSIVE ChunksFrom(_, _, _, _)
\* for i in range(start, len(words), step): words[i : i + chunk_size], kept
\* when it is not empty
ChunksFrom(words, start, chunk_size, step) ==
    IF start >= Len(words) THEN <<>>
    ELSE LET chunk == Slice(words, start, start + chunk_size)
         IN (IF chunk # <<>> THEN <<chunk>> ELSE <<>>)
            \o ChunksFrom(words, start + step, chunk_size, step)

\* range() raises ValueError for a step of zero
ChunkTextRaises(chunk_size, overlap) == chunk_size - overlap = 0

\* a chunk_text whose stride is one word too long
chunk_text_wider_stride(text, chunk_size, overlap) ==
    IF chunk_size - overlap <= 0 THEN <<>>
    ELSE ChunksFrom(Words(text), 0, chunk_size, chunk_size - overlap + 1)

\* DocumentProcessor.chunk_text where it returns; a negative step is an empty range
chunk_text(text, chunk_size, overlap) ==
    IF chunk_size - overlap <= 0 THEN <<>>
    ELSE ChunksFrom(Words(text), 0, chunk_size, chunk_size - overlap)

\* the n-th uuid4 that names a collection
CollOrder == <<"k1", "k2">>

\* what the vector index does during an upload: everything works, the
\* embedding or create_collection fails, or collection.add fails
UploadOutcomes == {"ok", "no_collection", "add_failed"}

\* the texts that are uploaded
Docs ==
    { <<"The", "sky", "is", "blue.", "Water", "is", "wet.">>,
      <<"hi", "there">> }

\* -------------------------------------------------------------- actions
\* a new request may be taken: the loop is idle and p is the first handler that
\* is free (handlers are interchangeable coroutines)
CanStart(p) ==
    /\ h[p].pc \in {"idle", "done"}
    /\ \A q \in Procs : q < p => h[q].pc \notin {"idle", "done"}
    /\ running = {}
    /\ turns < MaxTurns

\* a loop that allows one iteration more
AfterIterationOneMore(i) == IF i < max_iterations THEN "think" ELSE "synth"

\* where the for loop goes once iteration i has ended
AfterIteration(i) == IF i + 1 < max_iterations THEN "think" ELSE "synth"

\* a tail of chat that puts the reply right behind the turn's own user message
FinishTurnBehindOwn(p, r, content, reasoning_type) ==
    LET cid == r.request.conversation_id
        old == conversations[cid]
        own == IF r.pre_len + 1 < Len(old) THEN r.pre_len + 1 ELSE Len(old)
    IN /\ conversations' =
            [conversations EXCEPT
                ![cid] = SubSeq(old, 1, own)
                         \o <<ChatMessage("assistant", content, <<>>, reasoning_type)>>
                         \o SubSeq(old, own + 1, Len(old))]
       /\ h' = SetH(p, [r EXCEPT !.pc = "done",
                                 !.response = ChatResponse(content, cid, reasoning_type)])
       /\ running' = {}

\* a tail of chat that returns the response and records no assistant message
FinishTurnUnrecorded(p, r, content, reasoning_type) ==
    /\ conversations' = conversations
    /\ h' = SetH(p, [r EXCEPT !.pc = "done",
                              !.response = ChatResponse(content,
                                    r.request.conversation_id, reasoning_type)])
    /\ running' = {}

\* the tail of chat: append the assistant message and return the response
FinishTurn(p, r, content, reasoning_type) ==
    LET cid == r.request.conversation_id
    IN /\ conversations' =
            [conversations EXCEPT
                ![cid] = Append(@, ChatMessage("assistant", content, <<>>, reasoning_type))]
       /\ h' = SetH(p, [r EXCEPT !.pc = "done",
                                 !.response = ChatResponse(content, cid, reasoning_type)])
       /\ running' = {}

\* react_reasoning has returned `answer`; chat records it
ReturnAnswer(p, r, answer) ==
    FinishTurn(p, [r EXCEPT !.answer = answer], answer, "react")

\* POST /api/chat up to its first await or its strategy
Chat(p, Requests) ==
    /\ CanStart(p)
    /\ UNCHANGED helper
    /\ turns' = turns + 1
    /\ UNCHANGED << user_notes, research_insights, document_collections, chroma, uuids >>
    /\ \E request \in Requests :
        LET cid == request.conversation_id
            message_text == Strip(request.message)
            direct_query == is_direct_search(message_text)
            start == [Idle EXCEPT !.endpoint = "chat", !.request = request,
                        !.pre_len = IF cid \in DOMAIN conversations
                                    THEN Len(conversations[cid]) ELSE 0]
        IN IF IsReset(message_text)
           THEN /\ conversations' = ResetConversation(cid)
                /\ h' = SetH(p, [start EXCEPT !.pc = "done",
                                    !.response = ChatResponse(ResetAck, cid, "reset")])
                /\ running' = {}
           ELSE IF direct_query # <<>> /\ request.use_tools
           THEN /\ conversations' = conversations
                /\ h' = SetH(p, [start EXCEPT !.pc = "ws_wait", !.ret = "direct_search",
                                    !.tool_name = "web_search",
                                    !.params = Put(Put(EmptyDict, "query",
                                        QueryVal("", [EmptyQuery EXCEPT
                                                        !.message = direct_query])),
                                        "num_results", Val("5")),
                                    !.dispatches = 1, !.in_flight = 1])
                /\ running' = {}
           ELSE \E vecs \in VecChoices(request.document_collections) :
                LET appended == AppendMessage(cid,
                                    ChatMessage("user", UserContent(message_text),
                                                <<>>, None))
                    context == CombinedContext(request, appended[cid], message_text, vecs)
                IN /\ conversations' = appended
                   /\ h' = SetH(p, [start EXCEPT
                            !.pc = IF Strategy(request) = "react" THEN "think"
                                   ELSE Strategy(request),
                            \* which retrievals ran the except branch
                            !.fallbacks =
                                [j \in 1..Len(request.document_collections) |->
                                    /\ request.document_collections[j]
                                            \in DOMAIN document_collections
                                    /\ vecs[j] = "fail"],
                            !.query = [context |-> context, message |-> message_text]])
                   /\ running' = {p}

\* ReasoningEngine.chain_of_thought and the tail of chat
ChainOfThought(p, Texts) ==
    /\ h[p].pc = "chain_of_thought" /\ running = {p}
    /\ UNCHANGED helper
    /\ UNCHANGED << user_notes, research_insights, document_collections, chroma,
                    uuids, turns >>
    /\ \E llm_ok \in BOOLEAN, text \in Texts :
        /\ (~llm_ok => text = FirstText)
        /\ FinishTurn(p, [h[p] EXCEPT !.llm_calls = @ + 1],
                      IF llm_ok THEN LlmContent(text) ELSE CotError,
                      "chain_of_thought")

\* the direct language-model call and the tail of chat
DirectCall(p, Texts) ==
    /\ h[p].pc = "direct" /\ running = {p}
    /\ UNCHANGED helper
    /\ UNCHANGED << user_notes, research_insights, document_collections, chroma,
                    uuids, turns >>
    /\ \E llm_ok \in BOOLEAN, text \in Texts :
        /\ (~llm_ok => text = FirstText)
        /\ FinishTurn(p, [h[p] EXCEPT !.llm_calls = @ + 1],
                      IF llm_ok THEN LlmContent(text) ELSE Apology,
                      IF llm_ok THEN "direct" ELSE "error")

\* one pass of the for loop up to the call of execute_tool: the thinking call,
\* the parse, the defaults and the filter
Think(p, Outputs) ==
    /\ h[p].pc = "think" /\ running = {p}
    /\ UNCHANGED helper
    /\ UNCHANGED << user_notes, research_insights, document_collections, chroma,
                    uuids, turns >>
    /\ LET r == [h[p] EXCEPT !.thinking_calls = @ + 1, !.llm_calls = @ + 1,
                    !.tool_result = NoResult, !.tool_llm = 0,
                    !.reasoning_step = NoStep]
           cid == r.request.conversation_id
       IN \/ \* the completion call raises: the except branch answers
             ReturnAnswer(p, [r EXCEPT !.fault = "thinking"], FallbackAnswer(r.query))
          \/ \E reasoning_step \in Outputs :
                LET logged == Append(r.reasoning_log, IterationEntry(r.i))
                    action == ActionOf(reasoning_step)
                    params == ParsedParams(reasoning_step)
                    \* reasoning_step as far as this pass has read it
                    seen == [NoStep EXCEPT !.action = reasoning_step.action]
                IN /\ UNCHANGED << conversations, running >>
                   /\ h' = SetH(p,
                        IF IsFinish(reasoning_step)
                        THEN [r EXCEPT !.pc = "synth", !.reasoning_log = logged,
                                !.reasoning_step = seen]
                        ELSE IF NoAction(reasoning_step)
                        THEN [r EXCEPT !.pc = "synth", !.reasoning_step = seen,
                                !.reasoning_log = Append(logged, NoActionEntry(r.i))]
                        ELSE IF SkipsAction(action, params)
                        THEN [r EXCEPT !.pc = AfterIteration(r.i), !.i = @ + 1,
                                !.reasoning_log = logged,
                                \* of the parameters, the branch has only
                                \* looked for the mandatory keys
                                !.reasoning_step = [reasoning_step EXCEPT
                                    !.parameters =
                                        Restrict(params, ReactMandatory(action))]]
                        ELSE [r EXCEPT !.pc = "dispatch", !.reasoning_log = logged,
                                !.reasoning_step = reasoning_step, !.action = action,
                                !.params = PreparedParams(action, params, r.query, cid)])

\* locals that still count the returned call as in flight
AfterToolStillInFlight(r, tool_result) ==
    [r EXCEPT !.pc = AfterIteration(r.i), !.i = @ + 1,
        !.reasoning_log = Append(@, ToolEntry(r.i, tool_result)),
        !.tool_result = tool_result,
        !.reasoning_step = NoStep, !.action = None, !.params = EmptyDict]

\* the locals of the loop once execute_tool has returned tool_result
AfterTool(r, tool_result) ==
    [r EXCEPT !.pc = AfterIteration(r.i), !.i = @ + 1,
        !.reasoning_log = Append(@, ToolEntry(r.i, tool_result)),
        !.tool_result = tool_result, !.in_flight = 0,
        !.reasoning_step = NoStep, !.action = None, !.params = EmptyDict]

\* tool_result = await tool_manager.execute_tool(action, params) in the loop
Dispatch(p) ==
    /\ h[p].pc = "dispatch" /\ running = {p}
    /\ UNCHANGED helper
    /\ UNCHANGED << conversations, document_collections, chroma, turns >>
    /\ LET r == [h[p] EXCEPT !.dispatches = @ + 1, !.tool_name = h[p].action]
       IN IF Suspends(r.action, r.params)
          THEN /\ h' = SetH(p, [r EXCEPT !.pc = "ws_wait", !.ret = "react",
                                         !.in_flight = 1])
               /\ running' = {}
               /\ UNCHANGED << user_notes, research_insights, uuids >>
          ELSE \E e \in EnvsFor(r.action) :
                LET out == execute_tool(r.action, r.params, e)
                IN /\ user_notes' = out.notes
                   /\ research_insights' = out.insights
                   /\ uuids' = IF out.notes # user_notes
                               THEN [uuids EXCEPT !.note = @ + 1] ELSE uuids
                   /\ h' = SetH(p, AfterTool([r EXCEPT !.tool_llm = out.llm],
                                             out.result))
                   /\ running' = {p}

\* the chat handler once the direct web search has returned
DirectSearchDone(p, r, tool_result) ==
    LET cid == r.request.conversation_id
        direct_query == is_direct_search(Strip(r.request.message))
        results == tool_result.results
        done == [r EXCEPT !.pc = "done", !.in_flight = 0, !.tool_result = tool_result]
    IN IF Succeeded(tool_result)
       THEN IF results = <<>>
            THEN /\ conversations' = conversations
                 /\ h' = SetH(p, [done EXCEPT !.response =
                            ChatResponse(NoResultsContent(direct_query), cid, "tool")])
            ELSE /\ conversations' = AppendMessage(cid,
                        ChatMessage("assistant", SearchContent(results),
                                    SourcesOf(results), "tool"))
                 /\ h' = SetH(p, [done EXCEPT !.response =
                            ChatResponse(SearchContent(results), cid, "tool")])
       ELSE /\ conversations' = conversations
            /\ h' = SetH(p, [done EXCEPT !.response =
                        ChatResponse(SearchFailedContent, cid, "tool_error")])

\* web_search resumes with the pages fetched and summarized, and its caller
\* goes on
WebSearchReturn(p) ==
    /\ h[p].pc = "ws_wait" /\ running = {}
    /\ UNCHANGED helper
    /\ UNCHANGED << user_notes, research_insights, document_collections, chroma,
                    uuids, turns >>
    /\ \E n \in 0..MaxResults, sum_ok \in BOOLEAN :
        /\ (n = 0 => sum_ok)
        /\ LET tool_result == WebSearchResult(h[p].params, n, sum_ok)
               r == [h[p] EXCEPT !.tool_llm = tool_result.count]
           IN CASE r.ret = "react" ->
                    /\ h' = SetH(p, AfterTool(r, tool_result))
                    /\ running' = {p}
                    /\ UNCHANGED conversations
                [] r.ret = "direct_search" ->
                    /\ DirectSearchDone(p, r, tool_result)
                    /\ running' = {}
                [] r.ret = "endpoint" ->
                    /\ h' = SetH(p, [r EXCEPT !.pc = "done", !.in_flight = 0,
                                              !.tool_result = tool_result])
                    /\ running' = {}
                    /\ UNCHANGED conversations

\* the final synthesis call of react_reasoning and the tail of chat
Synthesize(p, Texts) ==
    /\ h[p].pc = "synth" /\ running = {p}
    /\ UNCHANGED helper
    /\ UNCHANGED << user_notes, research_insights, document_collections, chroma,
                    uuids, turns >>
    /\ LET r == [h[p] EXCEPT !.synthesis_calls = @ + 1, !.llm_calls = @ + 1,
                    !.final_prompt = FinalPrompt(h[p].query, h[p].reasoning_log)]
       IN \E llm_ok \in BOOLEAN, text \in Texts :
            /\ (~llm_ok => text = FirstText)
            /\ IF llm_ok
               THEN ReturnAnswer(p, [r EXCEPT !.final_response = text], LlmContent(text))
               ELSE ReturnAnswer(p, [r EXCEPT !.fault = "synthesis"],
                                 FallbackAnswer(r.query))

\* POST /api/tools/{tool_name}
ToolEndpoint(p, Calls) ==
    /\ CanStart(p)
    /\ UNCHANGED helper
    /\ turns' = turns + 1
    /\ UNCHANGED << conversations, document_collections, chroma >>
    /\ \E call \in Calls :
        LET r == [Idle EXCEPT !.endpoint = "tools", !.tool_name = call.tool_name,
                    !.params = call.parameters, !.dispatches = 1]
        IN IF Suspends(call.tool_name, call.parameters)
           THEN /\ h' = SetH(p, [r EXCEPT !.pc = "ws_wait", !.ret = "endpoint",
                                          !.in_flight = 1])
                /\ running' = {}
                /\ UNCHANGED << user_notes, research_insights, uuids >>
           ELSE \E e \in EnvsFor(call.tool_name) :
                LET out == execute_tool(call.tool_name, call.parameters, e)
                IN /\ user_notes' = out.notes
                   /\ research_insights' = out.insights
                   /\ uuids' = IF out.notes # user_notes
                               THEN [uuids EXCEPT !.note = @ + 1] ELSE uuids
                   /\ h' = SetH(p, [r EXCEPT !.pc = "done", !.tool_llm = out.llm,
                                             !.tool_result = out.result])
                   /\ running' = {}

\* raise HTTPException(status_code=...): what the client gets instead of a result
HttpError(status_code) == [http_error |-> status_code]

\* POST /api/notes/{conversation_id} with body note_data
TakeNoteEndpoint(p, Bodies) ==
    /\ CanStart(p)
    /\ UNCHANGED helper
    /\ turns' = turns + 1
    /\ running' = {}
    /\ UNCHANGED << conversations, research_insights, document_collections, chroma >>
    /\ \E conversation_id \in ConvIds, note_data \in Bodies :
        LET note == Arg(note_data, "note", Val(""))
            category == Arg(note_data, "category", Val("general"))
            parameters == Put(Put(Put(EmptyDict, "conversation_id", Val(conversation_id)),
                                  "note", note), "category", category)
            r == [Idle EXCEPT !.pc = "done", !.endpoint = "take_note",
                              !.tool_name = "take_note", !.params = parameters]
        IN IF ~Truthy(note)
           THEN /\ h' = SetH(p, [r EXCEPT !.tool_result = HttpError(400)])
                /\ UNCHANGED << user_notes, uuids >>
           ELSE /\ h' = SetH(p, [r EXCEPT !.tool_result = take_note(parameters).result])
                /\ user_notes' = take_note(parameters).notes
                /\ uuids' = [uuids EXCEPT !.note = @ + 1]

\* GET /api/notes/{conversation_id}?category=...; the empty text stands for a
\* category that was not sent (None)
GetNotesEndpoint(p, Categories) ==
    /\ CanStart(p)
    /\ UNCHANGED helper
    /\ turns' = turns + 1
    /\ running' = {}
    /\ UNCHANGED stores
    /\ \E conversation_id \in ConvIds, category \in Categories :
        LET parameters == Put(Put(EmptyDict, "conversation_id", Val(conversation_id)),
                              "category", category)
        IN h' = SetH(p, [Idle EXCEPT !.pc = "done", !.endpoint = "get_notes",
                            !.tool_name = "get_notes", !.params = parameters,
                            !.tool_result = get_notes(parameters)])

\* POST /api/upload for a .txt file whose text is `text`
Upload(p) ==
    /\ CanStart(p)
    /\ UNCHANGED helper
    /\ uuids.collection < Len(CollOrder)
    /\ turns' = turns + 1
    /\ running' = {}
    /\ UNCHANGED << conversations, user_notes, research_insights >>
    /\ \E text \in Docs, outcome \in UploadOutcomes :
        LET collection_id == CollOrder[uuids.collection + 1]
            chunks == chunk_text(text, UploadChunkSize, UploadOverlap)
        IN /\ uuids' = [uuids EXCEPT !.collection = @ + 1]
           /\ chroma' = CASE outcome = "ok" -> Put(chroma, collection_id, chunks)
                          [] outcome = "add_failed" -> Put(chroma, collection_id, <<>>)
                          [] OTHER -> chroma
           /\ document_collections' =
                Put(document_collections, collection_id,
                    [filename |-> "a.txt", chunk_count |-> Len(chunks),
                     chunks |-> chunks])
           /\ h' = SetH(p, [Idle EXCEPT !.pc = "done", !.endpoint = "upload"])

\* d without key k (del d[k])
Remove(d, k) == [x \in (DOMAIN d) \ {k} |-> d[x]]

\* DELETE /api/documents/{collection_id}
DeleteDocument(p) ==
    /\ CanStart(p)
    /\ UNCHANGED helper
    /\ turns' = turns + 1
    /\ running' = {}
    /\ UNCHANGED << conversations, user_notes, research_insights, uuids >>
    /\ \E collection_id \in CollIds, delete_ok \in BOOLEAN :
        /\ h' = SetH(p, [Idle EXCEPT !.pc = "done", !.endpoint = "delete"])
        /\ IF collection_id \notin DOMAIN document_collections
           THEN UNCHANGED << document_collections, chroma >>
           ELSE /\ document_collections' = Remove(document_collections, collection_id)
                /\ chroma' = IF delete_ok /\ collection_id \in DOMAIN chroma
                             THEN Remove(chroma, collection_id) ELSE chroma

\* ----------------------------------------------------------- input sets
\* every keyword of a tool signature
Keys ==
    {"query", "num_results", "collection_id", "max_length", "conversation_id",
     "note", "category", "concept", "level", "information", "context"}

\* the values written for a key; `odd` are the values of no usable type
KeyValues(k, odd) ==
    CASE k = "conversation_id" -> {Val(c) : c \in ConvIds \cup odd}
      [] k = "collection_id" -> {Val(c) : c \in CollIds \cup odd}
      [] OTHER -> {Val("v")}

\* the JSON objects of at most MaxKeys keys out of `keys`
DictsOver(keys, odd) ==
    LET values == UNION {KeyValues(k, odd) : k \in keys}
    IN UNION { {d \in [D -> values] : \A k \in D : d[k] \in KeyValues(k, odd)} :
               D \in {D \in SUBSET keys : Cardinality(D) <= MaxKeys} }

\* the objects a caller of the tool endpoint may send
Dicts == DictsOver(Keys, {Unhashable})

\* the keys the language model writes: every required parameter, and of the
\* optional ones num_results and category
ModelKeys ==
    {"query", "num_results", "collection_id", "conversation_id", "note", "category",
     "concept", "information"}

\* the objects the language model writes in a Parameters block
ModelDicts == DictsOver(ModelKeys, {})

\* the words the model may write after "Action:"
ActionTokens ==
    ToolNames \cup {None, "finish", "Finish", "Take_Note", "bogus_tool"}

\* everything a thinking call may return
ReactOutputs ==
    {o \in [action : ActionTokens, block : {"none", "bad", "json"},
             parameters : ModelDicts] :
        o.block # "json" => o.parameters = EmptyDict}

Step(action, parameters) == [action |-> action, block |-> "json", parameters |-> parameters]

Dict1(k, v) == Put(EmptyDict, k, Val(v))

\* the thinking-call answers tried where the requests vary
FewOutputs ==
    { Step("Finish", EmptyDict), Step("web_search", EmptyDict),
      Step("take_note", Dict1("conversation_id", "c2")) }

ResetMessages == { <<WS, "/RESET", WS>> }

SearchMessages == { <<"SEARCH FOR INFORMATION ABOUT:", "sky", WS>> }

Messages == ResetMessages \cup SearchMessages \cup { <<"hi">> }

\* the chat requests; a field the handler never reads for the message sent
\* keeps its default, and the ReAct and chain-of-thought strategies are asked
\* for on conversation c1
Requests ==
    {r \in [message : Messages, conversation_id : ConvIds,
            use_chain_of_thought : BOOLEAN, use_tools : BOOLEAN,
            context_limit : {2}, document_collections : {<<>>, <<"k1">>}] :
        /\ (r.message \in ResetMessages =>
                ~r.use_chain_of_thought /\ r.use_tools /\ r.document_collections = <<>>)
        /\ (Strategy(r) = "react" => r.conversation_id = "c1")
        /\ (r.use_chain_of_thought => r.conversation_id = "c1" /\ ~r.use_tools)
        /\ (r.message \in SearchMessages /\ r.use_tools =>
                ~r.use_chain_of_thought /\ r.document_collections = <<>>)}

\* one request that takes the ReAct path
ReactRequests ==
    {[message |-> <<"hi">>, conversation_id |-> "c1", use_chain_of_thought |-> FALSE,
      use_tools |-> TRUE, context_limit |-> 10, document_collections |-> <<"k1">>]}

\* every call of the tool endpoint: any name with any object
ToolCalls == [tool_name : ToolNames \cup {"bogus_tool"}, parameters : Dicts]

\* ------------------------------------------------------- specifications
\* the calls of the tool endpoint tried where the requests vary
FewCalls ==
    { [tool_name |-> "take_note",
       parameters |-> Put(Dict1("conversation_id", "c1"), "note", Val("v"))],
      [tool_name |-> "get_notes", parameters |-> Dict1("conversation_id", "c1")],
      [tool_name |-> "generate_insights", parameters |-> Dict1("conversation_id", "c1")],
      [tool_name |-> "web_search", parameters |-> Dict1("query", "v")] }

\* the whole service
Next ==
    \E p \in Procs :
        \/ Chat(p, Requests)
        \/ ToolEndpoint(p, FewCalls)
        \/ ChainOfThought(p, {FirstText})
        \/ DirectCall(p, {FirstText})
        \/ Think(p, FewOutputs)
        \/ Dispatch(p)
        \/ WebSearchReturn(p)
        \/ Synthesize(p, {FirstText})
        \/ Upload(p)
        \/ DeleteDocument(p)
        \/ TakeNoteEndpoint(p, {Dict1("note", "w")})
        \/ GetNotesEndpoint(p, {Val("")})

Spec == Init /\ [][Next]_vars

\* a step of a chat turn that has begun
TurnStep(p) ==
    \/ ChainOfThought(p, {FirstText})
    \/ DirectCall(p, {FirstText})
    \/ Think(p, {Step("Finish", EmptyDict), Step("web_search", EmptyDict)})
    \/ Dispatch(p)
    \/ WebSearchReturn(p)
    \/ Synthesize(p, {FirstText})

NextTurns == \E p \in Procs : Chat(p, Requests) \/ TurnStep(p)

\* the chat endpoint where a turn that can go on does go on: the event loop
\* resumes a coroutine that is ready, a completion call returns or raises, and
\* the requests of web_search end within their 15 second timeout
FairSpec == Init /\ [][NextTurns]_vars /\ WF_vars(\E p \in Procs : TurnStep(p))

\* one ReAct run driven by every answer the language model can give
NextReAct ==
    \E p \in Procs :
        \/ (turns = 0 /\ Chat(p, ReactRequests))
        \/ Think(p, ReactOutputs)
        \/ Dispatch(p)
        \/ WebSearchReturn(p)
        \/ Synthesize(p, LlmTexts)

SpecReAct == Init /\ [][NextReAct]_vars

\* stores the service can have built before a call of the tool endpoint:
\* conversation c1 with one user message or with 12 messages, with or without
\* a note, and
\* collection k1 never uploaded, uploaded and indexed or not, or deleted while
\* the vector index kept it
InitTools ==
    /\ \E long \in BOOLEAN :
        conversations = Put(<<>>, "c1",
            IF long
            THEN [j \in 1..12 |->
                    LET word == <<"m1", "m2", "m3", "m4", "m5", "m6", "m7", "m8",
                                  "m9", "m10", "m11", "m12">>[j]
                    IN IF j % 2 = 1
                       THEN ChatMessage("user", UserContent(<<word>>), <<>>, None)
                       ELSE ChatMessage("assistant", LlmContent(word), <<>>, "direct")]
            ELSE <<ChatMessage("user", UserContent(<<"hi">>), <<>>, None)>>)
    /\ \E noted \in BOOLEAN :
        /\ user_notes = IF noted
                        THEN Put(<<>>, "c1", <<[id |-> 1, content |-> Val("v"),
                                               category |-> Val("general")]>>)
                        ELSE <<>>
        /\ \E uploaded \in BOOLEAN, indexed \in BOOLEAN :
            LET chunks == chunk_text(<<"The", "sky", "is", "blue.", "v", "is", "wet.">>,
                                     UploadChunkSize, UploadOverlap)
            IN /\ document_collections =
                    IF uploaded
                    THEN Put(<<>>, "k1", [filename |-> "a.txt",
                                         chunk_count |-> Len(chunks), chunks |-> chunks])
                    ELSE <<>>
               /\ chroma = IF indexed THEN Put(<<>>, "k1", chunks) ELSE <<>>
               /\ uuids = [note |-> IF noted THEN 1 ELSE 0,
                           collection |-> IF uploaded \/ indexed THEN 1 ELSE 0]
    /\ research_insights = <<>>
    /\ running = {}
    /\ turns = 0
    /\ h = [p \in Procs |-> Idle]
    /\ helper = NoCall

\* one call of the tool endpoint with any name and any object
NextTools ==
    \E p \in Procs :
        \/ (turns = 0 /\ ToolEndpoint(p, ToolCalls))
        \/ WebSearchReturn(p)

SpecTools == InitTools /\ [][NextTools]_vars

\* stores the service can have built before a chat turn: conversation c1 with
\* 0, 2 or 4 messages, collection k1 uploaded with 6 chunks of which 4 hold the
\* word of the queries, collection k2 uploaded or not, each indexed or not
InitContext ==
    LET PriorMessages ==
            << ChatMessage("user", UserContent(<<"hi">>), <<>>, None),
               ChatMessage("assistant", LlmContent(FirstText), <<>>, "direct"),
               ChatMessage("user", UserContent(<<"Water">>), <<>>, None),
               ChatMessage("assistant", LlmContent("a2"), <<>>, "chain_of_thought") >>
        LongChunks ==
            << <<"The", "sky", "is", "blue.">>, <<"Water", "is", "wet.">>,
               <<"is", "Water">>, <<"sky">>, <<"water", "is">>, <<"Water">> >>
        ShortChunks == << <<"hi">>, <<"water", "is", "Water">> >>
    IN /\ \E n \in {0, 2, 4} :
            conversations = IF n = 0 THEN <<>>
                            ELSE Put(<<>>, "c1", FirstSlice(PriorMessages, n))
       /\ \E second \in BOOLEAN, indexed \in SUBSET CollIds :
            /\ (~second => "k2" \notin indexed)
            /\ document_collections =
                    LET first == Put(<<>>, "k1", [filename |-> "a.txt",
                                        chunk_count |-> Len(LongChunks),
                                        chunks |-> LongChunks])
                    IN IF second
                       THEN Put(first, "k2", [filename |-> "b.txt",
                                        chunk_count |-> Len(ShortChunks),
                                        chunks |-> ShortChunks])
                       ELSE first
            /\ chroma = [k \in indexed |-> IF k = "k1" THEN LongChunks ELSE ShortChunks]
            /\ uuids = [note |-> 0, collection |-> IF second THEN 2 ELSE 1]
       /\ user_notes = <<>>
       /\ research_insights = <<>>
       /\ running = {}
       /\ turns = 0
       /\ h = [p \in Procs |-> Idle]
       /\ helper = NoCall

\* the chat requests with every flag, every list of collections, messages that
\* some chunks hold or no chunk holds, a search command and a reset;
\* context_limit is any integer (the request model declares int = 10)
ContextRequests ==
    [message : { <<"Water">>, <<WS, "water", WS, "is">>, <<"there">> }
                    \cup SearchMessages \cup ResetMessages,
     conversation_id : {"c1"},
     use_chain_of_thought : BOOLEAN, use_tools : BOOLEAN,
     context_limit : {-1, 0, 1, 2, 3, 10},
     document_collections :
        {<<>>, <<"k1">>, <<"k2">>, <<"k1", "k2">>, <<"k2", "k1">>, <<"k1", "k1">>}]

\* one chat turn on those stores
NextContext ==
    \E p \in Procs :
        \/ (turns = 0 /\ Chat(p, ContextRequests))
        \/ ChainOfThought(p, {FirstText})
        \/ DirectCall(p, {FirstText})
        \/ Think(p, {Step("Finish", EmptyDict), Step("take_note", EmptyDict)})
        \/ Dispatch(p)
        \/ WebSearchReturn(p)
        \/ Synthesize(p, {FirstText})

SpecContext == InitContext /\ [][NextContext]_vars

\* ------------------------------------------- document_extract on a document
\* one POST /api/tools/document_extract on a collection of five chunks, indexed
\* or not, with the queries and max_length values that tell its branches apart
InitExtract ==
    LET Chunks ==
            << <<"The", "sky", "is", "blue.", "Water", "is", "wet.">>,
               <<"Water", "is", "wet.", "water", "is", "blue.", "done!">>,
               <<"sky", "is", "blue.">>,
               <<"why?", "Water", "is", "the", "sky">>,
               <<"is", "Water", "wet.", "hi">> >>
    IN /\ conversations = <<>>
       /\ user_notes = <<>>
       /\ research_insights = <<>>
       /\ document_collections = Put(<<>>, "k1", [filename |-> "a.txt",
                                       chunk_count |-> Len(Chunks), chunks |-> Chunks])
       /\ \E indexed \in BOOLEAN :
            chroma = IF indexed THEN Put(<<>>, "k1", Chunks) ELSE <<>>
       /\ uuids = [note |-> 0, collection |-> 1]
       /\ running = {}
       /\ turns = 0
       /\ h = [p \in Procs |-> Idle]
       /\ helper = NoCall

NextExtract ==
    \E p \in Procs :
        /\ turns = 0
        /\ ToolEndpoint(p,
              { [tool_name |-> "document_extract",
                 parameters |-> [collection_id |-> Val(c), query |-> Val(q)] @@ m] :
                    c \in {"k1", "k9"},
                    q \in {"water", "Water", "sky", "there", "blue. Water"},
                    m \in {<<>>} \cup { Put(<<>>, "max_length", Val(n)) :
                                           n \in {"0", "2", "5", "v"} } })

SpecExtract == InitExtract /\ [][NextExtract]_vars

\* DocumentProcessor.chunk_text called on its own: it returns its chunks or
\* range() raises
ChunkTextCall ==
    /\ helper.fn = "chunk_text" /\ helper.outcome = "called"
    /\ UNCHANGED << stores, running, turns, h >>
    /\ LET a == helper.args
       IN helper' =
            IF ChunkTextRaises(a.chunk_size, a.overlap)
            THEN [helper EXCEPT !.outcome = "ValueError"]
            ELSE [helper EXCEPT !.outcome = "returned",
                     !.result = chunk_text(a.text, a.chunk_size, a.overlap)]

\* a call of chunk_text with any text of up to MaxWords words, with or without
\* surrounding whitespace, and any two integers
InitChunk ==
    /\ conversations = <<>>
    /\ user_notes = <<>>
    /\ research_insights = <<>>
    /\ document_collections = <<>>
    /\ chroma = <<>>
    /\ uuids = [note |-> 0, collection |-> 0]
    /\ running = {}
    /\ turns = 0
    /\ h = [p \in Procs |-> Idle]
    /\ \E n \in 0..MaxWords, padded \in BOOLEAN,
          chunk_size \in -1..MaxChunk, overlap \in -1..MaxChunk :
            LET words == [j \in 1..n |->
                            <<"w1", "w2", "w3", "w4", "w5", "w6", "w7">>[j]]
            IN helper = [fn |-> "chunk_text",
                         args |-> [text |-> IF padded THEN <<WS>> \o JoinWords(words) \o <<WS>>
                                            ELSE JoinWords(words),
                                   chunk_size |-> chunk_size, overlap |-> overlap],
                         outcome |-> "called", result |-> <<>>]

SpecChunk == InitChunk /\ [][ChunkTextCall]_vars

\* the bodies sent to POST /api/notes: with and without a note and a category
NoteBodies ==
    { EmptyDict, Dict1("note", "w"), Dict1("note", ""), Dict1("category", "v"),
      Put(Dict1("note", "w"), "category", Val("v")) }

\* the category of GET /api/notes: not sent, or sent
NoteCategories == { Val(""), Val("general"), Val("v") }

\* the calls of take_note and get_notes through the tool endpoint
NoteCalls ==
    UNION { { [tool_name |-> "take_note",
               parameters |-> Put(Dict1("conversation_id", c), "note", Val("w"))],
              [tool_name |-> "take_note",
               parameters |-> Put(Put(Dict1("conversation_id", c), "note", Val("w")),
                                  "category", Val("v"))],
              [tool_name |-> "take_note", parameters |-> Dict1("conversation_id", c)],
              [tool_name |-> "get_notes", parameters |-> Dict1("conversation_id", c)],
              [tool_name |-> "get_notes",
               parameters |-> Put(Dict1("conversation_id", c), "category", Val("v"))],
              [tool_name |-> "get_notes",
               parameters |-> Put(Dict1("conversation_id", c), "category", Val(""))] } :
            c \in ConvIds }

\* notes taken and read through both of their endpoints
NextNotes ==
    \E p \in Procs :
        \/ ToolEndpoint(p, NoteCalls)
        \/ TakeNoteEndpoint(p, NoteBodies)
        \/ GetNotesEndpoint(p, NoteCategories)

SpecNotes == InitTools /\ [][NextNotes]_vars

\* ============================================================ properties
\* the handler that took the step, if the step was taken by a handler
Acted(p) == h'[p] # h[p] /\ h'[p] # Idle

\* a chat turn that has just returned from the ReAct strategy
ReactDone(p) ==
    /\ h[p].pc = "done" /\ h[p].endpoint = "chat"
    /\ h[p].response.reasoning_type = "react"

\* a handler inside react_reasoning
InReact(p) == h[p].pc \in {"think", "dispatch", "synth"} \/
              (h[p].pc = "ws_wait" /\ h[p].ret = "react")

\* handler p takes a step of its ReAct run
ReactStep(p) ==
    \/ Think(p, FewOutputs)
    \/ Dispatch(p)
    \/ WebSearchReturn(p)
    \/ Synthesize(p, {FirstText})

\* how far a ReAct run has come: three places per iteration, then the synthesis
\* and the return
Progress(r) ==
    CASE r.pc = "think" -> 3 * r.i
      [] r.pc = "dispatch" -> 3 * r.i + 1
      [] r.pc = "ws_wait" -> 3 * r.i + 2
      [] r.pc = "synth" -> 9
      [] OTHER -> 10

\* C1: one run of react_reasoning issues at most 3 thinking calls and at most 3
\* tool dispatches and then returns an answer string: both counters stay at or
\* below 3, a run that has not returned can always take a step, every step of
\* a run moves it strictly forward on a scale that ends at the return, and what
\* it returns is the text of the final call or the fallback text.
C1_ReactTerminates ==
    /\ [](\A p \in Procs :
            /\ h[p].thinking_calls <= 3
            /\ h[p].dispatches <= 3
            /\ (InReact(p) => Progress(h[p]) <= 9 /\ ENABLED ReactStep(p))
            /\ (ReactDone(p) => h[p].answer.kind \in {"llm", "react_fallback"}))
    /\ [][\A p \in Procs :
            InReact(p) /\ h'[p] # h[p] => Progress(h'[p]) > Progress(h[p])]_vars

\* a run that used all 3 iterations, each with a dispatch, and returned the
\* synthesized text
C1_Witness ==
    \E p \in Procs :
        /\ ReactDone(p)
        /\ h[p].thinking_calls = 3 /\ h[p].dispatches = 3
        /\ h[p].answer.kind = "llm"

\* a call of the tool endpoint that has just returned
ToolDone(p) == h[p].pc = "done" /\ h[p].endpoint = "tools"

\* C2: execute_tool never raises and always returns a result object, whatever
\* the tool name and the parameter mapping; for a name that is not one of the 8
\* registered tools no tool runs (no language-model call, no search in flight),
\* no store changes, and the error names the invalid tool and lists the 8 valid
\* names.
C2_ExecuteToolTotal ==
    /\ [](\A p \in Procs : ToolDone(p) =>
            /\ "raised" \notin DOMAIN h[p].tool_result
            /\ DOMAIN h[p].tool_result # {}
            /\ (h[p].tool_name \notin ToolNames =>
                    /\ h[p].tool_result.error.kind = "not_found"
                    /\ h[p].tool_result.error.tool = h[p].tool_name
                    /\ Len(h[p].tool_result.error.available) = 8
                    /\ {h[p].tool_result.error.available[j] : j \in 1..8} = ToolNames
                    /\ h[p].tool_llm = 0 /\ h[p].in_flight = 0))
    /\ [][\A p \in Procs :
            h'[p] # h[p] /\ h'[p].endpoint = "tools" /\ h'[p].tool_name \notin ToolNames
                => h'[p].pc = "done" /\ stores' = stores]_vars

\* a registered tool was called with parameters that do not bind, the TypeError
\* was caught, and the caller got the error object while a note was in the store
C2_Witness ==
    \E p \in Procs :
        /\ ToolDone(p)
        /\ h[p].tool_name = "take_note"
        /\ "error" \in DOMAIN h[p].tool_result
        /\ h[p].tool_result.error.kind = "invalid_parameters"
        /\ user_notes # <<>>

\* C3: every result execute_tool returns has a success indicator, false on the
\* failure paths (unknown tool name, parameter mismatch, internal failure).
C3_AlwaysSuccessKey ==
    \A p \in Procs : ToolDone(p) => "success" \in DOMAIN h[p].tool_result

\* C4: react_reasoning never raises: when a thinking call or the final
\* synthesis call fails, the run still returns, and what it returns is the
\* fixed fallback text holding the original query.
C4_FallbackOnFault ==
    \A p \in Procs :
        /\ (h[p].fault # "" => ReactDone(p))
        /\ (ReactDone(p) /\ h[p].fault # "" =>
                /\ h[p].answer.kind = "react_fallback"
                /\ h[p].answer.query = h[p].query
                /\ h[p].answer.query.message = Strip(h[p].request.message)
                /\ h[p].response.response = h[p].answer)

\* the second thinking call failed after a tool had been dispatched
C4_Witness ==
    \E p \in Procs :
        /\ ReactDone(p)
        /\ h[p].fault = "thinking"
        /\ h[p].thinking_calls = 2 /\ h[p].dispatches = 1

\* the entries of a reasoning log that are of the kinds in `kinds`
EntriesOf(log, kinds) == Len(SelectSeq(log, LAMBDA entry : entry.kind \in kinds))

\* C5: when the loop exits without a fault (cap reached, finish, or no action)
\* exactly one synthesis call is issued, no tool dispatch is still in flight
\* then, its prompt holds the original query and the full reasoning log (one
\* entry per thinking call and one per dispatch that returned), and the text of
\* that call is what the run returns.
C5_OneSynthesis ==
    \A p \in Procs :
        /\ h[p].synthesis_calls <= 1
        /\ (h[p].pc = "synth" => h[p].in_flight = 0 /\ h[p].synthesis_calls = 0)
        /\ (ReactDone(p) /\ h[p].fault # "thinking" =>
                /\ h[p].synthesis_calls = 1
                /\ h[p].in_flight = 0
                /\ h[p].final_prompt.query = h[p].query
                /\ h[p].final_prompt.reasoning_log = h[p].reasoning_log
                /\ EntriesOf(h[p].final_prompt.reasoning_log, {"Iteration"})
                        = h[p].thinking_calls
                /\ EntriesOf(h[p].final_prompt.reasoning_log,
                             {"Tool result", "Tool result: error"}) = h[p].dispatches
                /\ (h[p].fault = "" =>
                        /\ h[p].answer.kind = "llm"
                        /\ h[p].answer.text = <<h[p].final_response>>
                        /\ h[p].response.response = h[p].answer))

\* the cap was reached with three dispatches and the synthesis text returned
C5_Witness ==
    \E p \in Procs :
        /\ ReactDone(p)
        /\ h[p].fault = ""
        /\ h[p].dispatches = 3
        /\ Len(h[p].final_prompt.reasoning_log) = 6
        /\ h[p].final_response = "a2"

\* C6: for each of the 8 registered tools, the parameters the ReAct loop hands
\* to execute_tool hold only keys of that tool's allow-list.
C6_OnlyAllowedKeys ==
    \A p \in Procs :
        h[p].pc = "dispatch" /\ h[p].action \in ToolNames
            => DOMAIN h[p].params \subseteq Signature(h[p].action)

\* what is stored under conversation_id d: its messages, notes and insights
StoresOf(d) ==
    << IF d \in DOMAIN conversations THEN <<conversations[d]>> ELSE <<>>,
       IF d \in DOMAIN user_notes THEN <<user_notes[d]>> ELSE <<>>,
       IF d \in DOMAIN research_insights THEN <<research_insights[d]>> ELSE <<>> >>

\* C7: no step of a chat turn on conversation c changes the messages, notes or
\* insights stored under another conversation_id d.
C7_OtherConversationUntouched ==
    [][\A p \in Procs, d \in ConvIds :
            Acted(p) /\ h'[p].endpoint = "chat" /\ h'[p].request.conversation_id # d
                => StoresOf(d)' = StoresOf(d)]_vars

\* the value the model wrote for `key` in the step being dispatched, or
\* `default` when it wrote none
SuppliedOr(r, key, default) ==
    IF key \in DOMAIN ParsedParams(r.reasoning_step)
    THEN ParsedParams(r.reasoning_step)[key] ELSE default

\* C8: a dispatch of web_search, explain_concept, clarify_information or
\* take_note carries the tool's required parameters: the value the model
\* supplied, unchanged, or else the default (the original query for
\* web_search.query, explain_concept.concept and clarify_information.information;
\* the current conversation for take_note.conversation_id; the placeholder
\* "Note regarding: {query}" for take_note.note).
C8_DefaultsInjected ==
    \A p \in Procs :
        LET r == h[p]
            Carries(key, default) ==
                /\ key \in DOMAIN r.params
                /\ r.params[key] = SuppliedOr(r, key, default)
            original == [str |-> "", query |-> r.query]
        IN r.pc = "dispatch" =>
            /\ (r.action = "web_search" => Carries("query", original))
            /\ (r.action = "explain_concept" => Carries("concept", original))
            /\ (r.action = "clarify_information" => Carries("information", original))
            /\ (r.action = "take_note" =>
                    /\ Carries("conversation_id",
                               [str |-> r.request.conversation_id, query |-> EmptyQuery])
                    /\ Carries("note", [str |-> "Note regarding:", query |-> r.query]))

\* take_note is about to be dispatched with the note defaulted and the
\* conversation_id the model supplied
C8_Witness ==
    \E p \in Procs :
        /\ h[p].pc = "dispatch" /\ h[p].action = "take_note"
        /\ "note" \notin DOMAIN ParsedParams(h[p].reasoning_step)
        /\ "conversation_id" \in DOMAIN ParsedParams(h[p].reasoning_step)
        /\ h[p].params["conversation_id"].str = "c2"
        /\ h[p].params["note"].query = h[p].query
        /\ h[p].query.message = <<"hi">>

\* a chat request that has just returned and whose trimmed message is /reset
\* in some letter case
ResetDone(p) ==
    /\ h[p].pc = "done" /\ h[p].endpoint = "chat"
    /\ Lower(Strip(h[p].request.message)) = <<"/reset">>

\* C9: a chat request whose trimmed message is /reset, in any letter case,
\* leaves its conversation with 0 messages whatever it held, answers with the
\* fixed acknowledgment and reasoning_type "reset", and calls neither the
\* language model nor a tool; the step touches no other conversation and no
\* other store.
C9_Reset ==
    /\ [](\A p \in Procs : ResetDone(p) =>
            LET cid == h[p].request.conversation_id
            IN /\ cid \in DOMAIN conversations
               /\ Len(conversations[cid]) = 0
               /\ h[p].response.response.kind = "context_cleared"
               /\ h[p].response.reasoning_type = "reset"
               /\ h[p].response.conversation_id = cid
               /\ h[p].llm_calls = 0 /\ h[p].tool_llm = 0
               /\ h[p].dispatches = 0 /\ h[p].in_flight = 0)
    /\ [][\A p \in Procs :
            h'[p] # h[p] /\ ResetDone(p)' =>
                /\ h[p].pc \in {"idle", "done"}
                /\ \A d \in DOMAIN conversations \ {h'[p].request.conversation_id} :
                        d \in DOMAIN conversations' /\ conversations'[d] = conversations[d]
                /\ UNCHANGED << user_notes, research_insights, document_collections,
                                chroma >>]_vars

\* " /RESET " was sent to a conversation that held two messages
C9_Witness ==
    \E p \in Procs :
        /\ ResetDone(p)
        /\ h[p].request.message = <<WS, "/RESET", WS>>
        /\ h[p].pre_len = 2
        /\ conversations[h[p].request.conversation_id] = <<>>

\* handler p resumes from a direct web search that found results
DirectSearchFound(p) ==
    /\ h[p].pc = "ws_wait" /\ h[p].ret = "direct_search"
    /\ h'[p].pc = "done"
    /\ h'[p].tool_result.count >= 1

\* C10: a chat message of the form "Search for information about: <query>"
\* with tool use enabled goes to the web search; when the search returns
\* n >= 1 results the response holds every result's title and URL and exactly
\* one message is appended to the conversation: an assistant message with
\* reasoning_type "tool" whose sources are the n URLs in result order.
C10_DirectSearch ==
    /\ [](\A p \in Procs :
            /\ h[p].endpoint = "chat"
            /\ h[p].request.use_tools
            /\ h[p].request.message \in SearchMessages
            => /\ h[p].ret = "direct_search"
               /\ h[p].params["query"].query.message = <<"sky">>
               /\ h[p].llm_calls = 0)
    /\ [][\A p \in Procs : DirectSearchFound(p) =>
            LET cid == h[p].request.conversation_id
                results == h'[p].tool_result.results
                n == Len(results)
                old == IF cid \in DOMAIN conversations THEN conversations[cid] ELSE <<>>
                new == conversations'[cid]
                lines == h'[p].response.response.items
            IN /\ n = h'[p].tool_result.count
               /\ Len(new) = Len(old) + 1
               /\ SubSeq(new, 1, Len(old)) = old
               /\ new[Len(new)].role = "assistant"
               /\ new[Len(new)].reasoning_type = "tool"
               /\ Len(new[Len(new)].sources) = n
               /\ \A j \in 1..n : new[Len(new)].sources[j] = results[j].url
               /\ \A j \in 1..n : \E l \in 1..Len(lines) :
                        lines[l].title = results[j].title /\ lines[l].url = results[j].url
               /\ h'[p].response.reasoning_type = "tool"
               /\ \A d \in DOMAIN conversations \ {cid} :
                        conversations'[d] = conversations[d]]_vars

\* a direct search has just returned two results into a conversation that
\* already held a message
C10_Witness ==
    \E p \in Procs :
        /\ h[p].pc = "done" /\ h[p].endpoint = "chat"
        /\ h[p].response.reasoning_type = "tool"
        /\ h[p].tool_result.tool = "web_search"
        /\ h[p].tool_result.count = 2
        /\ Len(conversations[h[p].request.conversation_id]) >= 2
        /\ Len(conversations[h[p].request.conversation_id][
                Len(conversations[h[p].request.conversation_id])].sources) = 2

\* a call of take_note or get_notes, through either endpoint, has just returned
NotesCallDone(p, tool) ==
    /\ h[p].pc = "done" /\ h[p].endpoint \in {"tools", "take_note", "get_notes"}
    /\ h[p].tool_name = tool
    /\ "success" \in DOMAIN h[p].tool_result /\ h[p].tool_result.success

\* the notes stored under conversation_id c
NotesOf(c) == IF c \in DOMAIN user_notes THEN user_notes[c] ELSE <<>>

\* C11: get_notes(c) without a category returns exactly the notes taken for c,
\* in the order taken, each with the content it was given and with category
\* "general" when none was given: every take_note that returns appends one
\* note with the content and category of the call at the end of its
\* conversation's list and changes nothing else, nothing but take_note changes a
\* list, and get_notes without a category returns the list as stored.
C11_NoteRoundTrip ==
    /\ [](\A p \in Procs :
            NotesCallDone(p, "get_notes")
            /\ ~("category" \in DOMAIN h[p].params /\ h[p].params["category"].str # "")
            => h[p].tool_result.notes = NotesOf(h[p].params["conversation_id"].str))
    /\ [][\A p \in Procs :
            h'[p] # h[p] /\ NotesCallDone(p, "take_note")' =>
                LET c == h'[p].params["conversation_id"].str
                    new == user_notes'[c]
                IN /\ Len(new) = Len(NotesOf(c)) + 1
                   /\ SubSeq(new, 1, Len(NotesOf(c))) = NotesOf(c)
                   /\ new[Len(new)].content = h'[p].params["note"]
                   /\ new[Len(new)].category =
                        (IF "category" \in DOMAIN h'[p].params
                         THEN h'[p].params["category"]
                         ELSE [str |-> "general", query |-> EmptyQuery])
                   /\ \A d \in DOMAIN user_notes' \ {c} :
                        d \in DOMAIN user_notes /\ user_notes'[d] = user_notes[d]]_vars
    /\ [][user_notes' # user_notes =>
            \E p \in Procs : h'[p] # h[p] /\ NotesCallDone(p, "take_note")']_vars

\* get_notes has returned two notes of c1 in the order they were taken, the
\* second one taken without a category
C11_Witness ==
    \E p \in Procs :
        /\ NotesCallDone(p, "get_notes")
        /\ h[p].params["conversation_id"].str = "c1"
        /\ Len(h[p].tool_result.notes) = 2
        /\ h[p].tool_result.notes[1].content.str = "v"
        /\ h[p].tool_result.notes[2].content.str = "w"
        /\ h[p].tool_result.notes[2].category.str = "general"

\* get_notes was called with parameters that bind and has just returned
GetNotesReturned(p) ==
    /\ h[p].pc = "done" /\ h[p].endpoint \in {"tools", "get_notes"}
    /\ h[p].tool_name = "get_notes"
    /\ "conversation_id" \in DOMAIN h[p].params
    /\ DOMAIN h[p].params \subseteq {"conversation_id", "category"}

\* C12: get_notes on a conversation_id for which no note was taken returns an
\* empty note list with success true and no error, and leaves the note store
\* as it was: no entry is created for that conversation_id.
C12_GetNotesUnknown ==
    /\ [](\A p \in Procs :
            GetNotesReturned(p)
            /\ h[p].params["conversation_id"].str \notin DOMAIN user_notes
            => /\ {"notes", "success"} \subseteq DOMAIN h[p].tool_result
               /\ h[p].tool_result.notes = <<>>
               /\ h[p].tool_result.success = TRUE
               /\ "error" \notin DOMAIN h[p].tool_result)
    /\ [][\A p \in Procs :
            h'[p] # h[p] /\ GetNotesReturned(p)'
            => user_notes' = user_notes /\ DOMAIN user_notes' = DOMAIN user_notes]_vars

\* get_notes with a category has returned for c2, which has no notes, while c1
\* has one
C12_Witness ==
    \E p \in Procs :
        /\ GetNotesReturned(p)
        /\ h[p].params["conversation_id"].str = "c2"
        /\ "category" \in DOMAIN h[p].params /\ h[p].params["category"].str = "v"
        /\ DOMAIN user_notes = {"c1"}
        /\ h[p].tool_result.notes = <<>>

\* C13: the note list of every conversation is append-only under every
\* operation: a conversation_id that has notes keeps them, each note with its
\* id, content and category at its position; a step can only add at the end.
C13_NotesAppendOnly ==
    [][\A c \in DOMAIN user_notes :
            /\ c \in DOMAIN user_notes'
            /\ Len(user_notes'[c]) >= Len(user_notes[c])
            /\ SubSeq(user_notes'[c], 1, Len(user_notes[c])) = user_notes[c]]_vars

\* /reset has returned for a conversation whose note is still stored
C13_Witness ==
    \E p \in Procs :
        /\ ResetDone(p)
        /\ h[p].request.conversation_id \in DOMAIN user_notes
        /\ Len(user_notes[h[p].request.conversation_id]) >= 1

\* the step is a /reset of conversation c
ResetsNow(c) ==
    \E p \in Procs :
        /\ h'[p] # h[p]
        /\ ResetDone(p)'
        /\ h'[p].request.conversation_id = c

\* C14: a conversation_id once in the conversation store stays in it, and a
\* step either leaves the earlier message sequence as a prefix of the later one
\* or is a /reset of that conversation, which empties it.
C14_MessagesAppendOnly ==
    [][\A c \in DOMAIN conversations :
            /\ c \in DOMAIN conversations'
            /\ \/ /\ Len(conversations'[c]) >= Len(conversations[c])
                  /\ SubSeq(conversations'[c], 1, Len(conversations[c])) = conversations[c]
               \/ ResetsNow(c) /\ conversations'[c] = <<>>]_vars

\* a second turn has been appended behind the two messages of the first one
C14_Witness ==
    \E p \in Procs :
        /\ h[p].pc = "done" /\ h[p].endpoint = "chat"
        /\ h[p].pre_len = 2
        /\ Len(conversations[h[p].request.conversation_id]) = 4
        /\ conversations[h[p].request.conversation_id][3].role = "user"
        /\ conversations[h[p].request.conversation_id][4].role = "assistant"

\* C15: after any chat request that names conversation_id c has returned, c is
\* in the conversation store.
C15_CreatedOnFirstReference ==
    \A p \in Procs :
        h[p].pc = "done" /\ h[p].endpoint = "chat"
            => h[p].request.conversation_id \in DOMAIN conversations

\* the chunks of coll_id whose lowercased text contains the lowercased query,
\* the first up to 3 of them in stored order
FirstMatching(coll_id, query) ==
    LET chunks == ChunksOf(coll_id)
        matching == {j \in 1..Len(chunks) :
                        Contains(Lower(JoinWords(chunks[j])), Lower(query))}
        n == IF Cardinality(matching) < 3 THEN Cardinality(matching) ELSE 3
    IN [k \in 1..n |->
           chunks[CHOOSE j \in matching : Cardinality({i \in matching : i < j}) = k - 1]]

\* the texts retrieval is asked for
RetrievalQueries == { <<"Water">>, <<"water", WS, "is">>, <<"there">>, <<"sky">> }

\* handler p is in a chat turn that asked for the one collection coll_id
AskedFor(p, coll_id) ==
    /\ h[p].endpoint = "chat"
    /\ h[p].request.document_collections = <<coll_id>>
    /\ Len(h[p].fallbacks) = 1

\* C16: when the vector index has no collection for a stored collection_id, or
\* its query fails, retrieval on the stores a turn finds returns (and the chat
\* turn goes on with) the first up to 3 chunks of the collection, in stored
\* order, whose lowercased text contains the lowercased query
C16_FallbackFirstMatching ==
    /\ \A coll_id \in DOMAIN document_collections, query \in RetrievalQueries,
          vec \in VecOutcomes :
            turns = 0 /\ (coll_id \notin DOMAIN chroma \/ vec = "fail")
                => RetrieveChunks(coll_id, query, vec) = FirstMatching(coll_id, query)
    /\ \A p \in Procs, coll_id \in DOMAIN document_collections :
            AskedFor(p, coll_id) /\ h[p].fallbacks[1]
                => /\ h[p].pc \in {"chain_of_thought", "direct", "think", "dispatch",
                                    "ws_wait", "synth", "done"}
                   /\ h[p].query.context.chunks
                        = FirstMatching(coll_id, Strip(h[p].request.message))

\* the query of an indexed collection failed and the turn goes on with the
\* second, third and fifth chunk of six
C16_Witness ==
    \E p \in Procs :
        /\ AskedFor(p, "k1") /\ h[p].fallbacks[1]
        /\ "k1" \in DOMAIN chroma
        /\ Len(ChunksOf("k1")) = 6
        /\ h[p].query.context.chunks
                = <<ChunksOf("k1")[2], ChunksOf("k1")[3], ChunksOf("k1")[5]>>
\* handler p is in a chat turn that has assembled its context
BuiltContext(p) == h[p].endpoint = "chat" /\ h[p].query.message # <<>>

\* what the search of the j-th supplied collection of handler p can have
\* returned: nothing for an id that is not in the store, else the fallback
\* result or a ranking of the index
SearchResults(p, j) ==
    LET coll_id == h[p].request.document_collections[j]
    IN IF coll_id \notin DOMAIN document_collections THEN { <<>> }
       ELSE IF h[p].fallbacks[j] THEN { FirstMatching(coll_id, h[p].query.message) }
       ELSE { VectorQuery(coll_id, vec) : vec \in VecOutcomes \ {"fail"} }

RECURSIVE Flatten(_)
Flatten(parts) == IF parts = <<>> THEN <<>> ELSE Head(parts) \o Flatten(Tail(parts))

\* C17: the bundle of a chat turn is, collection by collection in the order
\* the ids were supplied, what each collection's search returned, at most 3
\* chunks each; an id that is not in the store contributes nothing and the turn
\* goes on; the header is there exactly when the bundle is not empty
C17_BundleInSuppliedOrder ==
    \A p \in Procs :
        BuiltContext(p) =>
            LET coll_ids == h[p].request.document_collections
                context == h[p].query.context
            IN /\ Len(h[p].fallbacks) = Len(coll_ids)
               /\ \E parts \in [1..Len(coll_ids) ->
                                    UNION {SearchResults(p, j) : j \in 1..Len(coll_ids)}] :
                    /\ \A j \in 1..Len(coll_ids) :
                            parts[j] \in SearchResults(p, j) /\ Len(parts[j]) <= 3
                    /\ context.chunks = Flatten(parts)
               /\ context.header = (context.chunks # <<>>)
               /\ h[p].pc \in {"chain_of_thought", "direct", "think", "dispatch",
                                "ws_wait", "synth", "done"}

\* two stored collections were asked for, second one first: the bundle holds
\* the one matching chunk of k2 and then three chunks of k1
C17_Witness ==
    \E p \in Procs :
        /\ BuiltContext(p)
        /\ h[p].request.document_collections = <<"k2", "k1">>
        /\ {"k1", "k2"} \subseteq DOMAIN document_collections
        /\ h[p].fallbacks = <<TRUE, TRUE>>
        /\ Len(h[p].query.context.chunks) = 4
        /\ h[p].query.context.chunks[1] = ChunksOf("k2")[2]
        /\ h[p].query.context.header
\* C18: every collection_id of the vector index is a key of document_collections
C18_IndexWithinStore == DOMAIN chroma \subseteq DOMAIN document_collections
\* the messages conversation c held before the turn of handler p
PriorOf(p, c) == SubSeq(conversations[c], 1, h[p].pre_len)

\* C19: the history of the context of a chat turn with context_limit N is the
\* most recent min(N-1, number of prior messages) messages that precede the
\* new user message, in conversation order
C19_HistoryWindow ==
    \A p \in Procs :
        BuiltContext(p) =>
            LET N == h[p].request.context_limit
                prior == PriorOf(p, h[p].request.conversation_id)
                least == IF N - 1 < Len(prior) THEN N - 1 ELSE Len(prior)
                n == IF least < 0 THEN 0 ELSE least
                history == h[p].query.context.history
            IN /\ Len(history) = n
               /\ \A j \in 1..n :
                    LET msg == prior[Len(prior) - n + j]
                    IN history[j] = [role |-> msg.role, content |-> msg.content]
\* handler p serves a chat request that sets the chain-of-thought flag and is
\* not the /reset command
CotTurn(p) ==
    /\ h[p].endpoint = "chat"
    /\ h[p].request.use_chain_of_thought
    /\ ~IsReset(Strip(h[p].request.message))

\* C20: a chat turn whose request sets the chain-of-thought flag runs the
\* chain-of-thought strategy and records reasoning_type "chain_of_thought",
\* whatever use_tools and document_collections are: it never thinks or
\* synthesizes as the ReAct loop does and dispatches no tool
C20_ChainOfThoughtFirst ==
    \A p \in Procs :
        CotTurn(p) =>
            /\ h[p].pc \in {"chain_of_thought", "done"}
            /\ h[p].thinking_calls = 0 /\ h[p].synthesis_calls = 0
            /\ h[p].dispatches = 0 /\ h[p].in_flight = 0
            /\ h[p].pc = "done" =>
                    LET c == h[p].request.conversation_id
                    IN /\ h[p].response.reasoning_type = "chain_of_thought"
                       /\ c \in DOMAIN conversations
                       /\ conversations[c] # <<>>
                       /\ conversations[c][Len(conversations[c])].reasoning_type
                            = "chain_of_thought"
\* chunk_text has ended, by returning or by raising
ChunkTextDone == helper.fn = "chunk_text" /\ helper.outcome # "called"

\* the words of a chunk as stored: " ".join(...) split again
ChunkWords(chunk) == Words(JoinWords(chunk))

\* C21: chunk_text called with overlap >= chunk_size on a text that has words
\* either raises or returns chunks that hold every word of the text
C21_NoSilentEmpty ==
    ChunkTextDone /\ helper.args.overlap >= helper.args.chunk_size
                  /\ Words(helper.args.text) # <<>>
        => \/ helper.outcome = "ValueError"
           \/ \A j \in 1..Len(Words(helper.args.text)) :
                \E k \in 1..Len(helper.result) :
                    \E m \in 1..Len(ChunkWords(helper.result[k])) :
                        ChunkWords(helper.result[k])[m] = Words(helper.args.text)[j]
\* the first n words of every chunk, one after the other
Heads(chunks, n) == Flatten([k \in 1..Len(chunks) |-> FirstSlice(ChunkWords(chunks[k]), n)])

\* C22: for 0 <= overlap < chunk_size, chunk_text returns a number of chunks
\* within 1 of ceil(W / (chunk_size - overlap)) for a text of W words, no chunk
\* has more than chunk_size words, and the first (chunk_size - overlap) words
\* of the chunks, in order, are the words of the text
C22_ChunksCoverText ==
    ChunkTextDone /\ 0 <= helper.args.overlap
                  /\ helper.args.overlap < helper.args.chunk_size
        => LET step == helper.args.chunk_size - helper.args.overlap
               W == Len(Words(helper.args.text))
               ceil == (W + step - 1) \div step
               chunks == helper.result
           IN /\ helper.outcome = "returned"
              /\ Len(chunks) - ceil \in {-1, 0, 1}
              /\ \A k \in 1..Len(chunks) :
                    Len(ChunkWords(chunks[k])) <= helper.args.chunk_size
              /\ Heads(chunks, step) = Words(helper.args.text)

\* five words in chunks of 3 with an overlap of 1: three chunks, the last one
\* of a single word
C22_Witness ==
    /\ ChunkTextDone
    /\ helper.args.chunk_size = 3 /\ helper.args.overlap = 1
    /\ Len(Words(helper.args.text)) = 5
    /\ Len(helper.result) = 3
    /\ helper.result[2] = <<"w3", "w4", "w5">>
    /\ helper.result[3] = <<"w5">>
\* handler record r is a call of a document tool that binds and names a
\* collection id that no stored collection has
UnknownCollection(r) ==
    /\ r.endpoint = "tools"
    /\ r.tool_name \in {"document_summarize", "document_extract"}
    /\ Binds(r.tool_name, r.params)
    /\ r.params.collection_id.str \in CollIds \ DOMAIN document_collections

\* C23: document_summarize and document_extract called for a collection id
\* that is not in the store (never uploaded, or deleted) return the structured
\* error "Collection not found" with success false, whatever the language model
\* and the vector index would do, make no language-model call and change no
\* store
C23_UnknownCollection ==
    /\ [](\A p \in Procs : ToolDone(p) /\ UnknownCollection(h[p]) =>
            /\ h[p].tool_result = NotFoundError("Collection not found")
            /\ ~h[p].tool_result.success
            /\ h[p].tool_llm = 0 /\ h[p].in_flight = 0
            /\ \A e \in ToolEnvs :
                    /\ execute_tool(h[p].tool_name, h[p].params, e).result
                            = h[p].tool_result
                    /\ execute_tool(h[p].tool_name, h[p].params, e).llm = 0)
    /\ [][\A p \in Procs :
            h'[p] # h[p] /\ UnknownCollection(h'[p])
                => h'[p].pc = "done" /\ stores' = stores]_vars

\* document_extract was called for k1 after k1 was deleted from the store
\* while the vector index still holds it
C23_Witness ==
    \E p \in Procs :
        /\ ToolDone(p) /\ UnknownCollection(h[p])
        /\ h[p].tool_name = "document_extract"
        /\ h[p].params.collection_id.str = "k1"
        /\ "k1" \in DOMAIN chroma
        /\ ~h[p].tool_result.success
\* handler record r is a call of generate_insights that binds, for a
\* conversation id string
InsightsCall(r) ==
    /\ r.endpoint = "tools" /\ r.tool_name = "generate_insights"
    /\ Binds(r.tool_name, r.params)
    /\ r.params.conversation_id.str \in ConvIds

\* the insights stored for conversation c
InsightsOf(c) == IF c \in DOMAIN research_insights THEN research_insights[c] ELSE <<>>

\* the contents of the last 10 messages of conversation c, or of all when
\* there are fewer
LastTenContents(c) ==
    LET n == Len(conversations[c])
        first == IF n > 10 THEN n - 9 ELSE 1
    IN [j \in 1..(n + 1 - first) |-> conversations[c][first + j - 1].content]

\* C24: generate_insights(c) for a known conversation c whose language-model
\* call succeeds appends exactly one insight to the list of c, answering the
\* contents of the last 10 messages of c and carrying the fixed confidence 0.8;
\* for an unknown c, or when the call fails, it returns an error with success
\* false and no insight list changes
C24_OneInsight ==
    [][\A p \in Procs :
        h'[p] # h[p] /\ InsightsCall(h'[p]) =>
            LET c == h'[p].params.conversation_id.str
                result == h'[p].tool_result
            IN /\ h'[p].pc = "done"
               /\ \A e \in ToolEnvs :
                    Succeeded(execute_tool("generate_insights", h'[p].params, e).result)
                        <=> (c \in DOMAIN conversations /\ e.llm_ok)
               /\ IF Succeeded(result)
                  THEN /\ c \in DOMAIN conversations
                       /\ Len(research_insights'[c]) = Len(InsightsOf(c)) + 1
                       /\ SubSeq(research_insights'[c], 1, Len(InsightsOf(c)))
                            = InsightsOf(c)
                       /\ LET insight == research_insights'[c][Len(research_insights'[c])]
                          IN /\ insight.content.prompt = LastTenContents(c)
                             /\ insight.confidence = Confidence
                             /\ 0 <= insight.confidence /\ insight.confidence <= 10
                             /\ result.insights = <<insight>>
                       /\ \A d \in DOMAIN research_insights' \ {c} :
                            d \in DOMAIN research_insights
                                /\ research_insights'[d] = research_insights[d]
                  ELSE /\ "error" \in DOMAIN result
                       /\ "success" \in DOMAIN result /\ ~result.success
                       /\ research_insights' = research_insights
                       /\ (c \notin DOMAIN conversations => h'[p].tool_llm = 0)]_vars

\* an insight was generated for a conversation of 12 messages: it answers the
\* contents of messages 3 to 12
C24_Witness ==
    \E p \in Procs :
        /\ ToolDone(p) /\ InsightsCall(h[p])
        /\ Succeeded(h[p].tool_result)
        /\ Len(conversations["c1"]) = 12
        /\ Len(InsightsOf("c1")) = 1
        /\ Len(InsightsOf("c1")[1].content.prompt) = 10
        /\ InsightsOf("c1")[1].content.prompt[1] = conversations["c1"][3].content
\* the tool results a reasoning log holds
ToolEntries(log) == EntriesOf(log, {"Tool result", "Tool result: error"})

\* C25: in one ReAct run at most one tool dispatch is in flight, none while
\* the run thinks or synthesizes, and a thinking call or a dispatch is made only
\* when every earlier dispatch of the run has returned and has its result in
\* the reasoning log
C25_SequentialTools ==
    /\ [](\A p \in Procs :
            /\ h[p].in_flight \in {0, 1}
            /\ (h[p].pc \in {"think", "dispatch", "synth"} =>
                    /\ h[p].in_flight = 0
                    /\ ToolEntries(h[p].reasoning_log) = h[p].dispatches)
            /\ (h[p].pc = "ws_wait" /\ h[p].ret = "react" =>
                    /\ h[p].in_flight = 1
                    /\ ToolEntries(h[p].reasoning_log) = h[p].dispatches - 1))
    /\ [][\A p \in Procs :
            h'[p].thinking_calls > h[p].thinking_calls
                    \/ h'[p].dispatches > h[p].dispatches
                => /\ h[p].in_flight = 0
                   /\ ToolEntries(h[p].reasoning_log) = h[p].dispatches
                   /\ h'[p].thinking_calls + h'[p].dispatches
                        = h[p].thinking_calls + h[p].dispatches + 1]_vars

\* the second thinking call was made after the web search of the first
\* iteration had returned and was logged
C25_Witness ==
    \E p \in Procs :
        /\ h[p].thinking_calls = 2 /\ h[p].dispatches = 1
        /\ h[p].tool_name = "web_search"
        /\ h[p].in_flight = 0
        /\ Len(h[p].reasoning_log) >= 3
        /\ h[p].reasoning_log[2].kind \in {"Tool result", "Tool result: error"}
        /\ h[p].reasoning_log[3] = IterationEntry(1)
\* C26: the two appends of a chat turn are separate steps: while a turn on
\* conversation c is suspended in the web search of its ReAct run, another turn
\* on c appends its user message behind what c holds, and a turn that ends
\* appends its reply behind whatever c holds then, so that messages of two
\* turns on c interleave
C26_TurnsInterleave ==
    [][\A p \in Procs :
        LET c == h'[p].request.conversation_id
        IN /\ (BuiltContext(p)' /\ ~BuiltContext(p) =>
                    /\ \A q \in Procs \ {p} : InReact(q) => h'[q] = h[q]
                    /\ conversations'[c] =
                            Append(IF c \in DOMAIN conversations
                                   THEN conversations[c] ELSE <<>>,
                                   ChatMessage("user",
                                        UserContent(Strip(h'[p].request.message)),
                                        <<>>, None)))
           /\ (BuiltContext(p) /\ h[p].pc # "done" /\ h'[p].pc = "done" =>
                    /\ c \in DOMAIN conversations
                    /\ conversations'[c] =
                            Append(conversations[c],
                                   ChatMessage("assistant", h'[p].response.response,
                                        <<>>, h'[p].response.reasoning_type)))]_vars

\* a ReAct turn on a fresh conversation has returned: behind its user message
\* lies the user message of a turn accepted while it waited for its web
\* search, and its reply comes after that
C26_Witness ==
    \E p \in Procs :
        /\ ReactDone(p) /\ h[p].pre_len = 0
        /\ LET messages == conversations[h[p].request.conversation_id]
           IN /\ Len(messages) >= 3
              /\ messages[1].role = "user" /\ messages[2].role = "user"
              /\ messages[Len(messages)].role = "assistant"
              /\ messages[Len(messages)].content = h[p].answer
              /\ messages[Len(messages)].reasoning_type = "react"
\* handler p has just got the answer of a thinking call
Thought(p) == h'[p].thinking_calls = h[p].thinking_calls + 1 /\ h'[p].fault = ""

\* C27: after a thinking step whose action is finish in any letter case, or
\* that names no action, the run dispatches nothing in that iteration and goes
\* to the final synthesis, which is its next and last call; a step without an
\* action adds the "No action identified" entry behind the entry of the
\* iteration, and the run ends without a fault unless the synthesis call fails
C27_FinishOrNoAction ==
    /\ [][\A p \in Procs :
            LET step == h'[p].reasoning_step
                finish == LowerTok(step.action) = "finish"
                no_action == step.action = None
            IN Thought(p) /\ (finish \/ no_action) =>
                /\ h'[p].pc = "synth"
                /\ h'[p].dispatches = h[p].dispatches /\ h'[p].in_flight = 0
                /\ h'[p].reasoning_log =
                        h[p].reasoning_log \o
                        (IF finish THEN <<IterationEntry(h[p].i)>>
                         ELSE <<IterationEntry(h[p].i), NoActionEntry(h[p].i)>>)]_vars
    /\ [][\A p \in Procs :
            h[p].pc = "synth" /\ h'[p] # h[p] =>
                /\ h'[p].pc = "done"
                /\ h'[p].thinking_calls = h[p].thinking_calls
                /\ h'[p].dispatches = h[p].dispatches
                /\ h'[p].synthesis_calls = 1
                /\ h'[p].fault \in {"", "synthesis"}
                /\ (h'[p].fault = "" => h'[p].answer.kind = "llm")]_vars

\* the second thinking call answered "Action: Finish" after one tool had run:
\* the run is at the synthesis
C27_Witness ==
    \E p \in Procs :
        /\ h[p].pc = "synth"
        /\ h[p].reasoning_step.action = "Finish"
        /\ h[p].thinking_calls = 2 /\ h[p].dispatches = 1
\* what the loop hands to execute_tool for `action` when the model supplied no
\* parameter at all: the defaults of the action's branch
DefaultsOnly(action, query, conversation_id) ==
    CASE action = "web_search" -> Put(EmptyDict, "query", QueryVal("", query))
      [] action = "take_note" ->
            Put(Put(EmptyDict, "conversation_id", Val(conversation_id)),
                "note", QueryVal("Note regarding:", query))
      [] action = "generate_insights" ->
            Put(EmptyDict, "conversation_id", Val(conversation_id))
      [] action = "explain_concept" -> Put(EmptyDict, "concept", QueryVal("", query))
      [] action = "clarify_information" ->
            Put(EmptyDict, "information", QueryVal("", query))
      [] OTHER -> EmptyDict

\* C28: a thinking step whose Parameters block is no valid JSON does not end
\* the run: the iteration goes on with an empty parameter set, so
\* document_summarize and document_extract are skipped and the loop moves to
\* the next iteration (or to the synthesis after the third), and every other
\* action is dispatched with exactly the defaults of its branch
C28_BadJsonIsEmpty ==
    [][\A p \in Procs :
        LET step == h'[p].reasoning_step
            action == LowerTok(step.action)
        IN Thought(p) /\ step.block = "bad" /\ step.action # None
                      /\ action # "finish" =>
            /\ h'[p].pc # "done"
            /\ h'[p].reasoning_log = Append(h[p].reasoning_log, IterationEntry(h[p].i))
            /\ IF action \in {"document_summarize", "document_extract"}
               THEN /\ h'[p].i = h[p].i + 1
                    /\ h'[p].dispatches = h[p].dispatches
                    /\ h'[p].pc = IF h'[p].i < 3 THEN "think" ELSE "synth"
               ELSE /\ h'[p].pc = "dispatch"
                    /\ h'[p].i = h[p].i
                    /\ h'[p].action = action
                    /\ h'[p].params = DefaultsOnly(action, h[p].query,
                                                   h[p].request.conversation_id)]_vars

\* the second thinking call named take_note with a block that is no JSON:
\* the note is about to be dispatched with both defaults
C28_Witness ==
    \E p \in Procs :
        /\ h[p].pc = "dispatch" /\ h[p].i = 1
        /\ h[p].reasoning_step.block = "bad"
        /\ h[p].action = "take_note"
        /\ DOMAIN h[p].params = {"conversation_id", "note"}
\* the thinking step names document_summarize without collection_id, or
\* document_extract without collection_id or without query
LacksMandatory(step) ==
    \/ /\ LowerTok(step.action) = "document_summarize"
       /\ "collection_id" \notin DOMAIN step.parameters
    \/ /\ LowerTok(step.action) = "document_extract"
       /\ ~({"collection_id", "query"} \subseteq DOMAIN step.parameters)

\* C29: when the model names document_summarize without collection_id, or
\* document_extract without collection_id or without query, the iteration
\* dispatches nothing and logs no tool result, counts toward the cap of 3, and
\* the run goes on with the next thinking step (the synthesis after the third
\* iteration)
C29_SkipWithoutMandatory ==
    [][\A p \in Procs :
        Thought(p) /\ LacksMandatory(h'[p].reasoning_step) =>
            /\ h'[p].dispatches = h[p].dispatches /\ h'[p].in_flight = 0
            /\ h'[p].reasoning_log = Append(h[p].reasoning_log, IterationEntry(h[p].i))
            /\ h'[p].i = h[p].i + 1 /\ h'[p].i <= 3
            /\ h'[p].pc = IF h'[p].i < 3 THEN "think" ELSE "synth"
            /\ (h'[p].pc = "think" => ENABLED Think(p, ReactOutputs))]_vars

\* the first thinking call named document_extract with a collection_id and no
\* query: the run is at its second thinking step with nothing dispatched
C29_Witness ==
    \E p \in Procs :
        /\ h[p].pc = "think" /\ h[p].i = 1
        /\ LowerTok(h[p].reasoning_step.action) = "document_extract"
        /\ DOMAIN h[p].reasoning_step.parameters = {"collection_id"}
        /\ h[p].dispatches = 0
        /\ h[p].reasoning_log = <<IterationEntry(0)>>
\* C30: whenever the ReAct loop dispatches one of the 8 registered tools, the
\* parameters it hands over hold every required parameter of that tool, and
\* execute_tool does not answer the dispatch with the invalid-parameters error
C30_RequiredPresent ==
    \A p \in Procs :
        /\ (h[p].pc = "dispatch" /\ h[p].action \in ToolNames
                => Required(h[p].action) \subseteq DOMAIN h[p].params)
        /\ (InReact(p) /\ h[p].tool_name \in ToolNames
                       /\ "error" \in DOMAIN h[p].tool_result
                => h[p].tool_result.error.kind # "invalid_parameters"
                    \/ Required(h[p].tool_name) \subseteq DOMAIN h[p].params)
\* a call of document_extract through the tool endpoint that returned passages
ExtractDone(p) ==
    /\ ToolDone(p) /\ h[p].tool_name = "document_extract"
    /\ Succeeded(h[p].tool_result)

\* the sentences of a chunk that contain the query, whatever the letter case
HasQuery(sentence, query) == Contains(Lower(JoinWords(sentence)), Lower(query))

\* the first sentence of the chunk that contains the query
FirstSentenceWith(chunk, query) ==
    LET sentences == SplitSentences(chunk, <<>>)
        first == CHOOSE i \in 1..Len(sentences) :
                    /\ HasQuery(sentences[i], query)
                    /\ \A k \in 1..(i - 1) : ~HasQuery(sentences[k], query)
    IN sentences[first]

ChunkHasSentence(chunk, query) ==
    \E i \in 1..Len(SplitSentences(chunk, <<>>)) :
        HasQuery(SplitSentences(chunk, <<>>)[i], query)

\* the first n words, then the ellipsis, when there are more than n words
CutTo(words, n) ==
    IF Len(words) <= n THEN words ELSE SubSeq(words, 1, n) \o <<"...">>

\* the retrieved chunks that have a sentence with the query, in retrieval order
RECURSIVE WithSentence(_, _)
WithSentence(raw, query) ==
    IF raw = <<>> THEN <<>>
    ELSE (IF ChunkHasSentence(Head(raw), query) THEN <<Head(raw)>> ELSE <<>>)
            \o WithSentence(Tail(raw), query)

\* the snippets expected of the retrieved chunks raw, each one passed through cut
Snippets(raw, query, n, cut_sentences) ==
    LET with == WithSentence(raw, query)
    IN IF with # <<>>
       THEN [j \in 1..Len(with) |->
                IF cut_sentences THEN CutTo(FirstSentenceWith(with[j], query), n)
                ELSE FirstSentenceWith(with[j], query)]
       ELSE [j \in 1..Len(raw) |-> CutTo(raw[j], n)]

\* the result of a returned document_extract call is what the claim expects of
\* some retrieval the vector index or the substring fallback can have made
ExtractAsExpected(p, cut_sentences) ==
    LET query == AsText(h[p].params.query)
        n == NumberOf(Arg(h[p].params, "max_length", Val("200")))
        got == h[p].tool_result.relevant_chunks
    IN /\ Len(got) <= 3
       /\ h[p].tool_result.chunk_count = Len(got)
       /\ \E vec \in VecOutcomes :
            LET raw == RetrieveChunks(h[p].params.collection_id.str, query, vec)
            IN /\ Len(raw) <= 3
               /\ got = Snippets(raw, query, n, cut_sentences)

\* C31: document_extract returns at most 3 snippets; for each retrieved chunk
\* that has a sentence containing the query, in any letter case, the snippet is
\* the first such sentence of that chunk cut to max_length words and followed by
\* the ellipsis when it is longer, not the whole chunk; only when no retrieved
\* chunk has such a sentence does it return the retrieved chunks themselves,
\* each cut to max_length words in the same way
C31_SentenceSnippets ==
    \A p \in Procs : ExtractDone(p) => ExtractAsExpected(p, TRUE)

\* C31 as stated: the snippet is the first sentence with the query, whole
C31_WholeSentence ==
    \A p \in Procs : ExtractDone(p) => ExtractAsExpected(p, FALSE)

\* the unindexed chunk "The sky is blue. Water is wet." was asked for "water"
\* with max_length 2: its snippet is "Water is" with the ellipsis, one of three
C31_Witness ==
    \E p \in Procs :
        /\ ExtractDone(p)
        /\ h[p].params.query = Val("water")
        /\ Arg(h[p].params, "max_length", Val("200")) = Val("2")
        /\ "k1" \notin DOMAIN chroma
        /\ h[p].tool_result.relevant_chunks[1] = <<"Water", "is", "...">>
        /\ h[p].tool_result.chunk_count = 3

\* handler p ends its call of chain_of_thought in this step
CotReturns(p) == h[p].pc = "chain_of_thought" /\ h'[p] # h[p]

\* C32: one invocation of chain-of-thought reasoning issues exactly one
\* language-model call and dispatches no tool; it returns the model's text
\* unchanged when the call succeeds and a user-facing error text when the call
\* fails, and never raises
C32_ChainOfThoughtOneCall ==
    [][\A p \in Procs : CotReturns(p) =>
            /\ h'[p].llm_calls = h[p].llm_calls + 1 /\ h'[p].llm_calls = 1
            /\ h'[p].thinking_calls = 0 /\ h'[p].synthesis_calls = 0
            /\ h'[p].tool_llm = 0
            /\ h'[p].dispatches = 0 /\ h'[p].in_flight = 0
            /\ h'[p].tool_result = NoResult /\ h'[p].reasoning_log = <<>>
            /\ UNCHANGED << user_notes, research_insights, document_collections,
                            chroma, uuids >>
            /\ h'[p].fault = "" /\ h'[p].pc = "done"
            /\ h'[p].response.reasoning_type = "chain_of_thought"
            /\ \/ \E text \in LlmTexts :
                    h'[p].response.response
                        = [kind |-> "llm", text |-> <<text>>, items |-> <<>>,
                           query |-> EmptyQuery]
               \/ h'[p].response.response.kind = "chain_of_thought_error"]_vars

\* a chain-of-thought turn whose only language-model call failed has returned
\* the error text as its answer
C32_Witness ==
    \E p \in Procs :
        /\ CotTurn(p) /\ h[p].pc = "done"
        /\ h[p].llm_calls = 1 /\ h[p].dispatches = 0 /\ h[p].fault = ""
        /\ h[p].response.response.kind = "chain_of_thought_error"
        /\ h[p].response.reasoning_type = "chain_of_thought"

\* handler record r serves a chat turn that is neither the /reset command nor
\* a direct search that the handler answers itself
NormalTurn(r) ==
    /\ r.endpoint = "chat"
    /\ ~IsReset(Strip(r.request.message))
    /\ ~(is_direct_search(Strip(r.request.message)) # <<>> /\ r.request.use_tools)

\* such a turn has appended its user message and not yet its reply
MidTurn(r) == NormalTurn(r) /\ r.pc \notin {"idle", "done"}

RepliesFollowUsers(conv) ==
    \A j \in 1..Len(conv) :
        conv[j].role = "assistant" => j > 1 /\ conv[j - 1].role = "user"

\* C34: in a conversation built by chat turns that run one after another, each
\* assistant message is immediately preceded by the user message of its turn:
\* user and assistant messages alternate, starting with a user message, and a
\* turn that has returned leaves an even number of messages
C34_Alternation ==
    \A c \in DOMAIN conversations :
        /\ RepliesFollowUsers(conversations[c])
        /\ \A j \in 1..Len(conversations[c]) :
                conversations[c][j].role = "user" =>
                    j = 1 \/ conversations[c][j - 1].role = "assistant"
        /\ ((\A p \in Procs : h[p].pc \in {"idle", "done"})
                => Len(conversations[c]) % 2 = 0)

\* the same for the turns that are not a direct search
C34_AlternationButSearch ==
    (\A p \in Procs : h[p].endpoint = "chat" =>
            is_direct_search(Strip(h[p].request.message)) = <<>>)
        => C34_Alternation

\* the conversation of the chat turn r was cleared after the turn began: it is
\* shorter than the turn left it (conversations only grow, but for /reset)
ResetSince(r) ==
    LET cid == r.request.conversation_id
    IN /\ cid \in DOMAIN conversations
       /\ IF NormalTurn(r) THEN Len(conversations[cid]) <= r.pre_len
          ELSE Len(conversations[cid]) < r.pre_len

\* C35: once a /reset of conversation c has completed, c holds no message of a
\* turn that began before the reset: a ReAct or direct-search turn that was
\* suspended at a tool call while the reset ran appends no reply to the
\* cleared conversation when it ends
C35_ResetDropsOldTurns ==
    [][\A p \in Procs :
            /\ h[p].endpoint = "chat" /\ h[p].pc \notin {"idle", "done"}
            /\ h'[p].pc = "done"
            /\ ResetSince(h[p])
            => conversations'[h[p].request.conversation_id]
                    = conversations[h[p].request.conversation_id]]_vars

\* the ReAct loop runs or has run for handler record r, or r has dispatched a tool
UsesReAct(r) ==
    \/ r.pc \in {"think", "dispatch", "synth", "ws_wait"}
    \/ r.thinking_calls > 0 \/ r.synthesis_calls > 0
    \/ r.dispatches > 0 \/ r.in_flight > 0 \/ r.tool_llm > 0
    \/ r.reasoning_log # <<>>
    \/ (r.pc = "done" /\ r.response.reasoning_type = "react")

\* C36: in a chat turn that is not a direct search (nor a reset) the ReAct
\* strategy runs, and a tool is dispatched, only when the request has use_tools
\* true, the chain-of-thought flag false and a non-empty document_collections
\* list; a request with use_tools true and no document collections never
\* dispatches a tool and is answered by a single language-model call, the
\* direct one unless the chain-of-thought flag asks for chain-of-thought
C36_ReActNeedsCollections ==
    \A p \in Procs :
        NormalTurn(h[p]) =>
            LET request == h[p].request
            IN /\ (UsesReAct(h[p]) =>
                        /\ request.use_tools
                        /\ ~request.use_chain_of_thought
                        /\ request.document_collections # <<>>)
               /\ (request.use_tools /\ request.document_collections = <<>> =>
                        /\ ~UsesReAct(h[p])
                        /\ h[p].pc \in {"direct", "chain_of_thought", "done"}
                        /\ (h[p].pc = "direct" => ~request.use_chain_of_thought)
                        /\ (h[p].pc = "done" =>
                                /\ h[p].llm_calls = 1
                                /\ h[p].response.reasoning_type \in
                                    IF request.use_chain_of_thought
                                    THEN {"chain_of_thought"}
                                    ELSE {"direct", "error"}))

\* a request with use_tools set and no document collections was answered by
\* the direct call, with no thinking call and no dispatch
C36_Witness ==
    \E p \in Procs :
        /\ NormalTurn(h[p]) /\ h[p].pc = "done"
        /\ h[p].request.use_tools /\ ~h[p].request.use_chain_of_thought
        /\ h[p].request.document_collections = <<>>
        /\ h[p].llm_calls = 1 /\ h[p].dispatches = 0 /\ h[p].thinking_calls = 0
        /\ h[p].response.reasoning_type = "direct"

====
